---- MODULE Spec2Model ----
(***************************************************************************)
(* A model of ciphrtxt-go: the message header codec (ciphrtxt/header.go)   *)
(* and the peer WebSocket protocol handler (ciphrtxt/wsprotocol.go).       *)
(*                                                                         *)
(* A Go string or byte slice is a sequence; a character is a one-character *)
(* string, a byte is a number in 0..255.  A uint32 is its four big-endian  *)
(* bytes (the values do not fit TLC's 32-bit integers).                     *)
(***************************************************************************)
EXTENDS Integers, Sequences, FiniteSets, TLC

Rep(c, n) == [i \in 1..n |-> c]

Take(s, n) == SubSeq(s, 1, n)

Drop(s, n) == SubSeq(s, n + 1, Len(s))

SetMin(S) == CHOOSE x \in S : \A y \in S : x <= y

Min(a, b) == IF a <= b THEN a ELSE b

(***************************************************************************)
(* encoding/hex, strconv, encoding/base64, strings: the library calls of   *)
(* the codec, by what they compute.                                        *)
(***************************************************************************)
HexLower == <<"0","1","2","3","4","5","6","7","8","9","a","b","c","d","e","f">>

HexUpper == <<"0","1","2","3","4","5","6","7","8","9","A","B","C","D","E","F">>

IsHexChar(c) == \E i \in 1..16 : HexLower[i] = c \/ HexUpper[i] = c

HexVal(c) == (CHOOSE i \in 1..16 : HexLower[i] = c \/ HexUpper[i] = c) - 1

\* hex.DecodeString: the bytes decoded before the first bad pair, and whether
\* the whole string decoded (an odd length is an error too).
HexDecodePrefix(s) ==
    LET bad == {k \in 1..(Len(s) \div 2) :
                    ~IsHexChar(s[2 * k - 1]) \/ ~IsHexChar(s[2 * k])}
        n   == IF bad = {} THEN Len(s) \div 2 ELSE SetMin(bad) - 1
    IN  [k \in 1..n |-> 16 * HexVal(s[2 * k - 1]) + HexVal(s[2 * k])]

HexDecodeString(s) ==
    LET b == HexDecodePrefix(s)
    IN  [bytes |-> b, err |-> ~(Len(s) = 2 * Len(b))]

\* hex.EncodeToString: lowercase.
HexEncodeToString(b) ==
    [i \in 1..(2 * Len(b)) |->
        IF i % 2 = 1 THEN HexLower[(b[(i + 1) \div 2] \div 16) + 1]
                     ELSE HexLower[(b[i \div 2] % 16) + 1]]

\* fmt.Sprintf("%08X", v) of a uint32.
Sprintf08X(v) ==
    [i \in 1..8 |->
        IF i % 2 = 1 THEN HexUpper[(v[(i + 1) \div 2] \div 16) + 1]
                     ELSE HexUpper[(v[i \div 2] % 16) + 1]]

U32Zero == <<0, 0, 0, 0>>

U32Max == <<255, 255, 255, 255>>

StripLeadingZeros(s) ==
    LET nz == {i \in 1..Len(s) : s[i] # "0"}
    IN  IF nz = {} THEN <<>> ELSE Drop(s, SetMin(nz) - 1)

\* strconv.ParseUint(s, 16, 32) with the error dropped, as the codec calls it:
\* 0 on a syntax error, the largest uint32 on a range error.
ParseUint16x32(s) ==
    IF Len(s) = 0 \/ \E i \in 1..Len(s) : ~IsHexChar(s[i]) THEN U32Zero
    ELSE LET d == StripLeadingZeros(s)
         IN  IF Len(d) > 8 THEN U32Max
             ELSE HexDecodeString(Rep("0", 8 - Len(d)) \o d).bytes

\* uint32 comparison on the big-endian bytes.
BytesLess(a, b) ==
    \/ \E i \in 1..Min(Len(a), Len(b)) :
            a[i] < b[i] /\ \A j \in 1..(i - 1) : a[j] = b[j]
    \/ Len(a) < Len(b) /\ \A j \in 1..Len(a) : a[j] = b[j]

U32Leq(a, b) == a = b \/ BytesLess(a, b)

\* binary.BigEndian.PutUint32 of a number TLC can hold.
BE32(n) ==
    <<(n \div 16777216) % 256, (n \div 65536) % 256, (n \div 256) % 256, n % 256>>

B64Alphabet ==
    <<"A","B","C","D","E","F","G","H","I","J","K","L","M","N","O","P",
      "Q","R","S","T","U","V","W","X","Y","Z","a","b","c","d","e","f",
      "g","h","i","j","k","l","m","n","o","p","q","r","s","t","u","v",
      "w","x","y","z","0","1","2","3","4","5","6","7","8","9","+","/">>

IsB64Char(c) == \E i \in 1..64 : B64Alphabet[i] = c

B64Val(c) == (CHOOSE i \in 1..64 : B64Alphabet[i] = c) - 1

\* base64.StdEncoding.Encode of a byte sequence whose length is a multiple of 3.
B64Encode(b) ==
    LET n(g) == 65536 * b[3 * g - 2] + 256 * b[3 * g - 1] + b[3 * g]
        six(g, j) == CASE j = 1 -> n(g) \div 262144
                       [] j = 2 -> (n(g) \div 4096) % 64
                       [] j = 3 -> (n(g) \div 64) % 64
                       [] j = 0 -> n(g) % 64
    IN  [i \in 1..(4 * (Len(b) \div 3)) |->
            B64Alphabet[six(((i - 1) \div 4) + 1, i % 4) + 1]]

\* One full quantum of four alphabet characters.
B64Quad(q) ==
    LET n == 262144 * B64Val(q[1]) + 4096 * B64Val(q[2])
             + 64 * B64Val(q[3]) + B64Val(q[4])
    IN  <<n \div 65536, (n \div 256) % 256, n % 256>>

\* base64.StdEncoding.DecodeString after the line breaks are skipped: padding
\* is accepted in the last quantum only.
B64DecodeClean(s) ==
    LET G == Len(s) \div 4
        q(g) == SubSeq(s, 4 * g - 3, 4 * g)
        full(g) == \A i \in 1..4 : IsB64Char(q(g)[i])
        pad == IF G = 0 \/ full(G) THEN 0
               ELSE IF IsB64Char(q(G)[1]) /\ IsB64Char(q(G)[2])
                       /\ q(G)[3] = "=" /\ q(G)[4] = "=" THEN 2
               ELSE IF IsB64Char(q(G)[1]) /\ IsB64Char(q(G)[2])
                       /\ IsB64Char(q(G)[3]) /\ q(G)[4] = "=" THEN 1
               ELSE 3
        unpad(g) == [i \in 1..4 |-> IF q(g)[i] = "=" THEN "A" ELSE q(g)[i]]
        bad == \/ Len(s) % 4 # 0
               \/ \E g \in 1..(G - 1) : ~full(g)
               \/ pad = 3
    IN  IF bad THEN [bytes |-> <<>>, err |-> TRUE]
        ELSE [bytes |-> [k \in 1..(3 * G - pad) |->
                            B64Quad(unpad(((k - 1) \div 3) + 1))[((k - 1) % 3) + 1]],
              err |-> FALSE]

IsNewline(c) == c = "\n" \/ c = "\r"

B64DecodeString(s) == B64DecodeClean(SelectSeq(s, LAMBDA c : ~IsNewline(c)))

\* strings.Split(s, ":").
SplitColon(s) ==
    LET cols == {i \in 1..Len(s) : s[i] = ":"}
        n    == Cardinality(cols)
        at(k) == IF k = 0 THEN 0
                 ELSE IF k = n + 1 THEN Len(s) + 1
                 ELSE CHOOSE i \in cols : Cardinality({j \in cols : j < i}) = k - 1
    IN  [k \in 1..(n + 1) |-> SubSeq(s, at(k - 1) + 1, at(k) - 1)]

(***************************************************************************)
(* header.go: RawMessageHeader and its deserialization.                    *)
(***************************************************************************)
MessageHeaderLengthV1 ==
    5 + 1 + 8 + 1 + 8 + 1 + 66 + 1 + 66 + 1 + 66 + 1 + 64 + 1 + 64

ShortMessageHeaderLengthV2 == 123

ShortMessageHeaderLengthB64V2 == 164

MessageHeaderLengthV2 == 192

MessageHeaderLengthB64V2 == 256

Str0100 == <<"0","1","0","0">>

Str0200 == <<"0","2","0","0">>

StrM0100 == <<"M">> \o Str0100

StrM01 == <<"M","0","1">>

\* "M\x02\x00\x00"
MagicV2 == <<77, 2, 0, 0>>

\* &RawMessageHeader{}: Go's zero value.  A uint64 is its eight big-endian
\* bytes.
ZeroHeader ==
    [version |-> <<>>, time |-> U32Zero, expire |-> U32Zero,
     I |-> <<>>, J |-> <<>>, K |-> <<>>,
     blocklen |-> U32Zero, reserved |-> Rep(0, 8),
     r |-> <<>>, s |-> <<>>, nonce |-> Rep(0, 8)]

\* The panics of the codec: s[:3] of a shorter string (line 233), a slice of
\* a nil array pointer (lines 293, 302, 304), an index past the end of I
\* (lines 387, 390).  NoPanic: the process runs.
NoPanic == "none"

SliceBounds == "slice bounds out of range"

NilDeref == "invalid memory address or nil pointer dereference"

IndexRange == "index out of range"

\* The result of a call on receiver z: the error flag and the receiver after it.
Result(e, z) == [panic |-> FALSE, err |-> e, z |-> z]

Panic(z) == [panic |-> TRUE, err |-> TRUE, z |-> z]

deserializeV1(z, s) ==
    LET d  == SplitColon(s)
        z2 == [z EXCEPT !.version = Str0100,
                        !.time = ParseUint16x32(d[2]),
                        !.expire = ParseUint16x32(d[3])]
        hI == HexDecodeString(d[4])
        hJ == HexDecodeString(d[5])
        hK == HexDecodeString(d[6])
        hr == HexDecodeString(d[7])
        hs == HexDecodeString(d[8])
        zI == [z2 EXCEPT !.I = hI.bytes]
        zJ == [zI EXCEPT !.J = hJ.bytes]
        zK == [zJ EXCEPT !.K = hK.bytes]
        zr == [zK EXCEPT !.r = hr.bytes]
        zs == [zr EXCEPT !.s = hs.bytes]
    IN  IF Len(d) # 8 \/ d[1] # StrM0100 THEN Result(TRUE, z)
        ELSE IF hI.err THEN Result(TRUE, zI)
        ELSE IF hJ.err THEN Result(TRUE, zJ)
        ELSE IF hK.err THEN Result(TRUE, zK)
        ELSE IF hr.err THEN Result(TRUE, zr)
        ELSE IF hs.err THEN Result(TRUE, zs)
        ELSE Result(FALSE, zs)

importBinaryHeaderV2(z, smh) ==
    LET zs == [z EXCEPT !.version = Str0200,
                        !.time = SubSeq(smh, 5, 8),
                        !.expire = SubSeq(smh, 9, 12),
                        !.I = SubSeq(smh, 13, 45),
                        !.J = SubSeq(smh, 46, 78),
                        !.K = SubSeq(smh, 79, 111),
                        !.blocklen = SubSeq(smh, 112, 115),
                        !.reserved = SubSeq(smh, 116, 123)]
        zl == [zs EXCEPT !.r = SubSeq(smh, 124, 155),
                         !.s = SubSeq(smh, 156, 187),
                         !.nonce = Rep(0, 3) \o SubSeq(smh, 188, 192)]
    IN  IF Len(smh) < ShortMessageHeaderLengthV2 THEN Result(TRUE, z)
        ELSE IF Take(smh, 4) # MagicV2 THEN Result(TRUE, z)
        ELSE IF Len(smh) >= MessageHeaderLengthV2 THEN Result(FALSE, zl)
        ELSE Result(FALSE, zs)

deserializeV2(z, s) ==
    LET dec == IF Len(s) >= MessageHeaderLengthB64V2
               THEN B64DecodeString(Take(s, MessageHeaderLengthB64V2))
               ELSE B64DecodeString(Take(s, ShortMessageHeaderLengthB64V2))
    IN  IF Len(s) < ShortMessageHeaderLengthB64V2 THEN Result(TRUE, z)
        ELSE IF dec.err THEN Result(TRUE, z)
        ELSE importBinaryHeaderV2(z, dec.bytes)

\* s[:3] panics (slice bounds out of range) on a string shorter than 3.
Deserialize(z, s) ==
    IF Len(s) < 3 THEN Panic(z)
    ELSE IF Take(s, 3) = StrM01 THEN deserializeV1(z, s)
    ELSE deserializeV2(z, s)

(***************************************************************************)
(* header.go: serialization.  A function that returns a pointer returns    *)
(* NilPtr or a pointer to an array; slicing NilPtr panics.                 *)
(***************************************************************************)
NilPtr == [nil |-> TRUE, array |-> <<>>]

Ptr(a) == [nil |-> FALSE, array |-> a]

\* What a call that may panic returns: the panic, or the value.
Value(v) == [panic |-> NoPanic, v |-> v]

Panics(p) == [panic |-> p, v |-> <<>>]

\* serializeV1 with %08x for %08X: time and expire in lowercase.
serializeV1LowerHex(z) ==
    LET ss == <<"M">> \o z.version \o <<":">> \o HexEncodeToString(z.time) \o <<":">>
              \o HexEncodeToString(z.expire) \o <<":">> \o HexEncodeToString(z.I)
              \o <<":">> \o HexEncodeToString(z.J) \o <<":">>
              \o HexEncodeToString(z.K) \o <<":">> \o HexEncodeToString(z.r)
              \o <<":">> \o HexEncodeToString(z.s)
    IN  IF Len(ss) # MessageHeaderLengthV1 THEN NilPtr ELSE Ptr(ss)

serializeV1(z) ==
    LET ss == <<"M">> \o z.version \o <<":">> \o Sprintf08X(z.time) \o <<":">>
              \o Sprintf08X(z.expire) \o <<":">> \o HexEncodeToString(z.I)
              \o <<":">> \o HexEncodeToString(z.J) \o <<":">>
              \o HexEncodeToString(z.K) \o <<":">> \o HexEncodeToString(z.r)
              \o <<":">> \o HexEncodeToString(z.s)
    IN  IF Len(ss) # MessageHeaderLengthV1 THEN NilPtr ELSE Ptr(ss)

\* uint8(z.nonce>>32), then uint32(z.nonce&0xFFFFFFFF).
exportBinaryHeaderV2(z) ==
    LET buf == MagicV2 \o z.time \o z.expire \o z.I \o z.J \o z.K \o z.blocklen
               \o z.reserved \o z.r \o z.s \o <<z.nonce[4]>> \o SubSeq(z.nonce, 5, 8)
    IN  IF Len(buf) # MessageHeaderLengthV2 THEN NilPtr ELSE Ptr(buf)

\* bmh[:] of a nil bmh panics.
serializeV2(z) ==
    LET bmh == exportBinaryHeaderV2(z)
    IN  IF bmh.nil THEN Panics(NilDeref) ELSE Value(Ptr(B64Encode(bmh.array)))

Serialize(z) ==
    LET v1 == serializeV1(z)
        v2 == serializeV2(z)
    IN  IF z.version = Str0100
        THEN IF v1.nil THEN Panics(NilDeref) ELSE Value(v1.array)
        ELSE IF v2.panic # NoPanic THEN v2 ELSE Value(v2.v.array)

(***************************************************************************)
(* header.go: the order of a header slice, and the database keys.          *)
(***************************************************************************)
\* Less without its loop over I: equal times are never less.
LessTimeOnly(z, i, j) ==
    IF BytesLess(z[i].time, z[j].time) THEN Value(TRUE) ELSE Value(FALSE)

\* The first x of the loop (counted from 1) at which Less returns or indexes
\* past the end of an I; 34 when the loop runs out.
LessStop(a, b) ==
    SetMin({x \in 1..33 : x > Len(a.I) \/ x > Len(b.I) \/ a.I[x] # b.I[x]} \cup {34})

Less(z, i, j) ==
    LET x == LessStop(z[i], z[j])
    IN  IF BytesLess(z[i].time, z[j].time) THEN Value(TRUE)
        ELSE IF BytesLess(z[j].time, z[i].time) THEN Value(FALSE)
        ELSE IF x = 34 THEN Value(FALSE)
        ELSE IF x > Len(z[i].I) \/ x > Len(z[j].I) THEN Panics(IndexRange)
        ELSE Value(z[i].I[x] < z[j].I[x])

\* Swap writes each header over the other by Serialize and Deserialize; the
\* errors of Deserialize are dropped.
Swap(z, i, j) ==
    LET t1 == Serialize(z[i])
        t2 == Serialize(z[j])
        zj == Deserialize(z[j], t1.v)
        zi == Deserialize(z[i], t2.v)
    IN  IF t1.panic # NoPanic THEN Panics(t1.panic)
        ELSE IF t2.panic # NoPanic THEN Panics(t2.panic)
        ELSE Value([z EXCEPT ![j] = zj.z, ![i] = zi.z])

\* hex.DecodeString(fmt.Sprintf("D0%08X", v)): the prefix byte, then v.
KeyPrefix(p, v) == HexDecodeString(p \o Sprintf08X(v)).bytes

\* dbKeys with the arrival key copied into the presence key.
dbKeysPresenceByArrival(h, servertime) ==
    [date       |-> KeyPrefix(<<"D", "0">>, h.time) \o h.I,
     servertime |-> KeyPrefix(<<"C", "0">>, servertime) \o h.I,
     expire     |-> KeyPrefix(<<"E", "0">>, h.expire) \o h.I,
     I          |-> KeyPrefix(<<"C", "0">>, servertime) \o h.I]

dbKeys(h, servertime) ==
    [date       |-> KeyPrefix(<<"D", "0">>, h.time) \o h.I,
     servertime |-> KeyPrefix(<<"C", "0">>, servertime) \o h.I,
     expire     |-> KeyPrefix(<<"E", "0">>, h.expire) \o h.I,
     I          |-> h.I]

(***************************************************************************)
(* Wire strings a peer may send as the payload of response-header.         *)
(***************************************************************************)
Chars(hexbytes) == HexEncodeToString(hexbytes)

\* Two content identifiers: the first has 10-bit prefix 0x200, the second 0x00A.
IdA == <<128>> \o Rep(0, 32)

IdB == <<2, 171>> \o Rep(205, 31)

PointJ == <<3>> \o Rep(17, 32)

PointK == <<2>> \o Rep(34, 32)

SigR == Rep(51, 32)

SigS == Rep(68, 32)

\* expire 0x00000406 = 1030 and 0xFFFFFFFF.
ExpireSoon == <<0, 0, 4, 6>>

TimeSent == <<0, 0, 3, 232>>

WireV1(t8, e8, id) ==
    StrM0100 \o <<":">> \o t8 \o <<":">> \o e8 \o <<":">> \o Chars(id) \o <<":">>
    \o Chars(PointJ) \o <<":">> \o Chars(PointK) \o <<":">> \o Chars(SigR)
    \o <<":">> \o Chars(SigS)

BinaryShortV2(magic, e, id) ==
    magic \o TimeSent \o e \o id \o PointJ \o PointK \o <<0, 0, 0, 7>> \o Rep(0, 8)

BinaryV2(magic, e, id) ==
    BinaryShortV2(magic, e, id) \o SigR \o SigS \o <<1, 2, 3, 4, 5>>

SampleWire ==
    << WireV1(Sprintf08X(TimeSent), Sprintf08X(U32Max), IdA),
       B64Encode(BinaryV2(MagicV2, ExpireSoon, IdB)),
       B64Encode(BinaryShortV2(MagicV2, U32Max, IdB)),
       <<>>,
       <<"M", "0">>,
       <<"M","0","1","0","1">> \o Drop(WireV1(Sprintf08X(TimeSent), Sprintf08X(U32Max), IdA), 5),
       Take(B64Encode(BinaryV2(MagicV2, U32Max, IdA)), 100) \o <<"!">>
           \o Drop(B64Encode(BinaryV2(MagicV2, U32Max, IdA)), 101),
       Take(B64Encode(BinaryV2(MagicV2, U32Max, IdA)), 163),
       B64Encode(BinaryV2(<<77, 1, 0, 0>>, U32Max, IdA)),
       WireV1(Rep("Z", 8), Sprintf08X(U32Max), IdA) >>

\* rmh := &RawMessageHeader{}; err := rmh.Deserialize(s), for each sample.
Parsed == [i \in 1..Len(SampleWire) |-> Deserialize(ZeroHeader, SampleWire[i])]

(***************************************************************************)
(* wsprotocol.go: one protocol handler wsh, its four timers, the global    *)
(* handler list, and the goroutines that run its code:                     *)
(*   "loop"   wsh.eventLoop                       (go wsh.eventLoop())     *)
(*   "peers0" the one-shot wsh.txPeers(0)         (go wsh.txPeers(0))      *)
(*   "rx"     the transport's delivery goroutine: the inbound handlers     *)
(*            and the transport's close callback                           *)
(*   "app"    the caller of the WSProtocolHandler interface                *)
(* Time is counted in seconds and advances Quantum at a time.  A timer is  *)
(* Go's time.Timer as it was before Go 1.23: its channel C holds at most   *)
(* one tick, which stays there until it is received; Stop reports false    *)
(* when the timer has expired or was stopped already.                      *)
(***************************************************************************)
DefaultWatchdogTimeout == 150

DefaultTimeTickle == 30

DefaultStatusTickle == 300

DefaultPeersTickle == 300

Quantum == DefaultTimeTickle

\* The wall clock at the start, and where the model stops counting it: past
\* NowCap every sample header that expires at all has expired.
Epoch == 1000

NowCap == 1060

\* The application stops calling Disconnect once this many calls have started.
MaxDisconnectCalls == 2

TimerNames == {"watchdog", "timeTickle", "statusTickle", "peersTickle"}

Threads == {"loop", "peers0", "rx", "app"}

Self == 1

\* Payloads of response-status and response-peer: 0 is JSON that does not
\* parse, the others are the decoded value.
StatusPayloads == 0..1

PeerPayloads == 0..1

TimePayloads == {1}

JsonOk(m) == m # 0

\* The panic of wsprotocol.go, line 304.
NotInList == "wsHandler.Disconnect: trying to remove element not in list"

VARIABLES
    ctor,             \* NewWSProtocolHandler: "start", "setup" (setup() returned), "done"
    remoteSet,        \* wsh.remote != nil
    disconnect,       \* wsh.disconnect != nil
    timers,           \* each timer: armed?, seconds left, ticks in its channel C
    pc,               \* where each goroutine is
    todo,             \* the timers a blocked goroutine has still to stop or reset
    cur,              \* the call a blocked goroutine is in
    wsHandlerList,    \* the global handler list
    panicked,         \* the panic that ended the process (NoPanic: none)
    now,              \* the wall clock
    remoteCache,      \* wsh.remote: the identifiers in the peer's HeaderCache
    localCache,       \* wsh.local: the identifiers in the LocalHeaderCache
    peers,            \* wsh.local: the peer map
    target,           \* the message store's shard sector
    tmpStatus,        \* wsh.tmpStatus (0: nil)
    remoteStatus,     \* wsh.remote.status (0: the zero value)
    remoteServerTime, \* wsh.remote.serverTime
    lastEmit,         \* the event the latest step emitted ("none": none)
    lastRx,           \* the inbound event whose handler ended in the latest step
    cbRuns,           \* how many times the OnDisconnect callback has run
    discCalls,        \* how many calls of Disconnect have started
    discDone,         \* how many calls of Disconnect have returned
    listAfterFirst,   \* the handler list as the first returned Disconnect left it
    sinceTimeArm,     \* seconds since timeTickle was last armed, up to its period
    staleTick,        \* the latest step reset timeTickle over an undrained tick
    given,            \* what the codec's caller starts from: "string" or "header"
    codecPc,          \* where the codec's caller is
    wire,             \* the string handed to Deserialize
    rmh,              \* the RawMessageHeader in hand
    out,              \* the string Serialize returned
    back,             \* the RawMessageHeader parsed from that string
    dbk,              \* the keys dbKeys returned
    slice,            \* a RawMessageHeaderSlice
    lessRet,          \* the latest call of Less: its arguments and its result
    kv,               \* the local header cache's key-value store
    Count,            \* the local header cache's Count
    sweep,            \* the expiry sweep in progress: its entries and its place
    interrupts,       \* how many sweeps have been interrupted
    ret,              \* what the latest call on the cache or the store returned
    refresh,          \* main's refresh goroutine: where it is and what it ran last
    blobs,            \* the files under ./messages/store: their content, by I
    stage             \* each handler of the registry: how far its life has come

handlerVars ==
    <<ctor, remoteSet, disconnect, timers, pc, todo, cur, wsHandlerList,
      remoteCache, localCache, peers, tmpStatus, remoteStatus,
      remoteServerTime, lastEmit, lastRx, cbRuns, discCalls, discDone,
      listAfterFirst, sinceTimeArm, staleTick>>

codecVars == <<given, codecPc, wire, rmh, out, back, dbk>>

orderVars == <<slice, lessRet>>

cacheVars == <<kv, Count, sweep, interrupts, ret>>

nodeVars == <<refresh, blobs, stage>>

vars == <<handlerVars, panicked, now, target, codecVars, orderVars, cacheVars, nodeVars>>

Duration(x) ==
    CASE x = "watchdog"     -> DefaultWatchdogTimeout
      [] x = "timeTickle"   -> DefaultTimeTickle
      [] x = "statusTickle" -> DefaultStatusTickle
      [] x = "peersTickle"  -> DefaultPeersTickle

\* time.NewTimer(d)
NewTimer(d) == [active |-> TRUE, rem |-> d, c |-> 0]

NoTimer == [active |-> FALSE, rem |-> 0, c |-> 0]

\* t.Stop(): its result is t.active before the call.
TimerStop(t) == [t EXCEPT !.active = FALSE, !.rem = 0]

\* t.Reset(d): arms the timer; a tick already in the channel stays there.
TimerReset(t, d) == [t EXCEPT !.active = TRUE, !.rem = d]

\* <-t.C
TimerDrain(t) == [t EXCEPT !.c = 0]

\* The runtime, Quantum seconds later: an armed timer that runs out sends one
\* tick on its channel of capacity 1 and is no longer armed.
TimerAdvance(t) ==
    IF ~t.active THEN t
    ELSE IF t.rem <= Quantum THEN [active |-> FALSE, rem |-> 0, c |-> 1]
    ELSE [t EXCEPT !.rem = t.rem - Quantum]

NoOp == [name |-> "none", arg |-> 0]

Op(n, a) == [name |-> n, arg |-> a]

NoRx == [ev |-> "none", arg |-> 0]

Rx(e, a) == [ev |-> e, arg |-> a]

\* The timers each function stops or resets, in the order of its code.
resetWatchdog == <<"watchdog">>

resetTimeTickle == <<"timeTickle">> \o resetWatchdog

resetStatusTickle == <<"statusTickle">> \o resetWatchdog

DisconnectStops == <<"timeTickle", "statusTickle", "watchdog">>

Chain(o) ==
    CASE o.name = "txTime"        -> resetTimeTickle
      [] o.name = "rxTime"        -> resetWatchdog
      [] o.name = "txStatus"      -> resetWatchdog
      [] o.name = "rxStatus"      -> IF JsonOk(o.arg) THEN resetStatusTickle ELSE <<>>
      [] o.name = "txPeers"       -> resetWatchdog
      [] o.name = "rxPeer"        -> resetWatchdog
      [] o.name = "rxHeader"      -> resetWatchdog
      [] o.name = "RequestStatus" -> resetStatusTickle
      [] o.name = "Disconnect"    -> DisconnectStops

\* Disconnect stops its timers; every other function resets them.
StopOnly(o) == o.name = "Disconnect"

\* t.Stop(); t.Reset(d) -- the reset without the drain: a tick that is already
\* in the channel stays there.
RECURSIVE RunChainNoDrain(_, _, _)
RunChainNoDrain(tm, chain, stopOnly) ==
    IF chain = <<>> THEN [tm |-> tm, rest |-> <<>>]
    ELSE LET x == Head(chain)
             stopped == TimerStop(tm[x])
             after == IF stopOnly THEN stopped ELSE TimerReset(stopped, Duration(x))
         IN  RunChainNoDrain([tm EXCEPT ![x] = after], Tail(chain), stopOnly)

\* if !t.Stop() { <-t.C }; t.Reset(d) -- for each timer of the chain in turn,
\* as far as it goes without blocking: a timer that is neither armed nor has
\* a tick in its channel blocks the caller in <-t.C.  The result is the timers
\* and the rest of the chain, its head the timer the caller now waits on.
RECURSIVE RunChain(_, _, _)
RunChain(tm, chain, stopOnly) ==
    IF chain = <<>> THEN [tm |-> tm, rest |-> <<>>]
    ELSE LET x == Head(chain)
             t == tm[x]
             stopped == IF t.active THEN TimerStop(t) ELSE TimerDrain(t)
             after == IF stopOnly THEN stopped ELSE TimerReset(stopped, Duration(x))
         IN  IF ~t.active /\ t.c = 0 THEN [tm |-> tm, rest |-> chain]
             ELSE RunChain([tm EXCEPT ![x] = after], Tail(chain), stopOnly)

\* The rest of a chain once the tick the caller waited for has arrived.
WakeChain(tm, chain, stopOnly) ==
    LET x == Head(chain)
        drained == TimerDrain(tm[x])
        after == IF stopOnly THEN drained ELSE TimerReset(drained, Duration(x))
    IN  RunChain([tm EXCEPT ![x] = after], Tail(chain), stopOnly)

(***************************************************************************)
(* The header caches and the shard sector.  Their code is not in the       *)
(* source files; they are modelled from the specification (4.3, 4.4).      *)
(***************************************************************************)
\* Insert(header) -> (inserted, err): dedup on I, then the expiry check.
CacheInsert(cache, h, t) ==
    IF h.I \in cache THEN [cache |-> cache, inserted |-> FALSE, err |-> FALSE]
    ELSE IF U32Leq(h.expire, BE32(t))
         THEN [cache |-> cache, inserted |-> FALSE, err |-> TRUE]
    ELSE [cache |-> cache \cup {h.I}, inserted |-> TRUE, err |-> FALSE]

Pow2(n) == IF n >= 10 THEN 1024 ELSE [k \in 0..9 |-> 2^k][n]

\* The top 10 bits of I.
Prefix10(I) == 4 * I[1] + (I[2] \div 64)

\* The remote caches a handler is given: none (nil), or the HeaderCache of a
\* peer with the identifiers it already holds and the status it has (0: the
\* zero value).
NoRemote == [set |-> FALSE, cache |-> {}, status |-> 0]

SampleRemotes == {[set |-> TRUE, cache |-> c, status |-> 0] : c \in {{}, {IdB}}}

InSector(sec, I) == ((Prefix10(I) - sec.Start) % 1024) < Pow2(sec.Ring)

\* The sector the node starts with, and the sectors SetTarget is given.
InitialSector == [Start |-> 512, Ring |-> 1]

SampleSectors == {InitialSector, [Start |-> 8, Ring |-> 2]}

(***************************************************************************)
(* The handlers' effects once their timers are reset.                      *)
(***************************************************************************)
\* rxHeader without its test of insert (line 221): the local insert is made
\* whenever the remote one returns no error.
rxHeaderIgnoringInsert(h) ==
    LET rins == CacheInsert(remoteCache, h, now)
        lins == CacheInsert(localCache, h, now)
    IN  IF ~remoteSet THEN [rc |-> remoteCache, lc |-> localCache]
        ELSE IF rins.err THEN [rc |-> rins.cache, lc |-> localCache]
        ELSE [rc |-> rins.cache, lc |-> lins.cache]

\* rxHeader, lines 216-224: what the two caches hold afterwards.
rxHeaderInserts(h) ==
    LET rins == CacheInsert(remoteCache, h, now)
        lins == CacheInsert(localCache, h, now)
    IN  IF ~remoteSet THEN [rc |-> remoteCache, lc |-> localCache]
        ELSE IF rins.err THEN [rc |-> rins.cache, lc |-> localCache]
        ELSE IF rins.inserted THEN [rc |-> rins.cache, lc |-> lins.cache]
        ELSE [rc |-> rins.cache, lc |-> localCache]

\* What each call emits when it ends.
Emits(o) ==
    CASE o.name = "txTime"        -> "response-time"
      [] o.name = "txStatus"      -> "response-status"
      [] o.name = "txPeers"       -> IF peers # {} THEN "response-peer" ELSE "none"
      [] o.name = "RequestStatus" -> "request-status"
      [] OTHER                    -> "none"

\* The event each inbound handler is registered for (setup, lines 263-269).
EventOf(o) ==
    CASE o.name = "txTime"   -> "request-time"
      [] o.name = "rxTime"   -> "response-time"
      [] o.name = "txStatus" -> "request-status"
      [] o.name = "rxStatus" -> "response-status"
      [] o.name = "txPeers"  -> "request-peers"
      [] o.name = "rxPeer"   -> "response-peer"
      [] o.name = "rxHeader" -> "response-header"
      [] OTHER               -> "none"

Range(s) == {s[i] : i \in 1..Len(s)}

\* Where a goroutine is once its call has returned.
Returned(T) == IF T = "peers0" THEN "done" ELSE "ready"

\* The end of call o by goroutine T, its timers reset.
Finish(T, o) ==
    /\ pc' = [pc EXCEPT ![T] = Returned(T)]
    /\ todo' = [todo EXCEPT ![T] = <<>>]
    /\ cur' = [cur EXCEPT ![T] = NoOp]
    /\ lastEmit' = Emits(o)
    /\ lastRx' = IF T = "rx" THEN Rx(EventOf(o), o.arg) ELSE NoRx
    /\ remoteServerTime' =
           IF o.name = "rxTime" /\ remoteSet THEN o.arg ELSE remoteServerTime
    /\ remoteStatus' =
           IF o.name = "rxStatus" /\ JsonOk(o.arg) /\ remoteSet THEN o.arg
           ELSE remoteStatus
    /\ tmpStatus' =
           IF o.name = "rxStatus" /\ JsonOk(o.arg) /\ ~remoteSet THEN o.arg
           ELSE tmpStatus
    /\ peers' = IF o.name = "rxPeer" /\ JsonOk(o.arg) THEN peers \cup {o.arg} ELSE peers
    /\ remoteCache' =
           IF o.name = "rxHeader" THEN rxHeaderInserts(Parsed[o.arg].z).rc
           ELSE remoteCache
    /\ localCache' =
           IF o.name = "rxHeader" THEN rxHeaderInserts(Parsed[o.arg].z).lc
           ELSE localCache

\* Goroutine T, in call o, has run its chain as far as r says: it blocks in
\* <-t.C, or reaches the send on wsh.abort (Disconnect), or ends the call.
Proceed(T, o, chain, r) ==
    /\ timers' = r.tm
    /\ sinceTimeArm' =
           IF ~StopOnly(o) /\ "timeTickle" \in Range(chain)
              /\ "timeTickle" \notin Range(r.rest)
           THEN 0 ELSE sinceTimeArm
    /\ staleTick' =
           /\ ~StopOnly(o) /\ pc[T] # "wait"
           /\ "timeTickle" \in Range(chain) /\ "timeTickle" \notin Range(r.rest)
           /\ timers["timeTickle"].c = 1
    /\ IF r.rest # <<>> \/ o.name = "Disconnect"
       THEN /\ pc' = [pc EXCEPT ![T] = IF r.rest # <<>> THEN "wait" ELSE "abort"]
            /\ todo' = [todo EXCEPT ![T] = r.rest]
            /\ cur' = [cur EXCEPT ![T] = o]
            /\ lastEmit' = "none"
            /\ lastRx' = NoRx
            /\ UNCHANGED <<remoteCache, localCache, peers, tmpStatus,
                           remoteStatus, remoteServerTime>>
       ELSE Finish(T, o)

\* A call that is not Disconnect, from its first line.
Call(T, o) ==
    /\ Proceed(T, o, Chain(o), RunChain(timers, Chain(o), StopOnly(o)))
    /\ UNCHANGED <<ctor, remoteSet, disconnect, wsHandlerList, panicked, now, target,
                   cbRuns, discCalls, discDone, listAfterFirst>>
    /\ UNCHANGED <<codecVars, orderVars, cacheVars, nodeVars>>

\* wsh.Disconnect() up to its send on wsh.abort (lines 278-292), the timers
\* being tm when it is called: the callback runs if one is registered.
Disconnect(T, tm) ==
    /\ cbRuns' = IF disconnect THEN cbRuns + 1 ELSE cbRuns
    /\ discCalls' = discCalls + 1
    /\ Proceed(T, Op("Disconnect", discCalls + 1), DisconnectStops,
               RunChain(tm, DisconnectStops, TRUE))
    /\ UNCHANGED <<ctor, remoteSet, disconnect, wsHandlerList, panicked, now, target,
                   discDone, listAfterFirst>>
    /\ UNCHANGED <<codecVars, orderVars, cacheVars, nodeVars>>

\* Goroutine T of a process that has not panicked is at place p.
At(T, p) == panicked = NoPanic /\ pc[T] = p

\* The tick a blocked goroutine waits for is in the channel: it takes it and
\* goes on.
Wake(T) ==
    /\ At(T, "wait")
    /\ timers[Head(todo[T])].c = 1
    /\ Proceed(T, cur[T], todo[T], WakeChain(timers, todo[T], StopOnly(cur[T])))
    /\ UNCHANGED <<ctor, remoteSet, disconnect, wsHandlerList, panicked, now, target,
                   cbRuns, discCalls, discDone, listAfterFirst>>
    /\ UNCHANGED <<codecVars, orderVars, cacheVars, nodeVars>>

\* dbKeys not called yet; Less not called yet; no sweep in progress; no call
\* made on the cache.
NoKeys == [date |-> <<>>, servertime |-> <<>>, expire |-> <<>>, I |-> <<>>]

NoLess == [i |-> 0, j |-> 0, less |-> FALSE]

NoSweep == [entries |-> <<>>, step |-> 0, before |-> <<>>, at |-> 0]

NoReturn == [op |-> "none"]

(***************************************************************************)
(* The actions.                                                            *)
(***************************************************************************)
HandlerInit ==
    /\ ctor = "start"
    /\ remoteSet = FALSE
    /\ disconnect = FALSE
    /\ timers = [x \in TimerNames |-> NoTimer]
    /\ pc = [T \in Threads |-> "off"]
    /\ todo = [T \in Threads |-> <<>>]
    /\ cur = [T \in Threads |-> NoOp]
    /\ wsHandlerList = <<>>
    /\ panicked = NoPanic
    /\ now = Epoch
    /\ remoteCache = {}
    /\ localCache = {}
    /\ peers = {}
    /\ target = InitialSector
    /\ tmpStatus = 0
    /\ remoteStatus = 0
    /\ remoteServerTime = 0
    /\ lastEmit = "none"
    /\ lastRx = NoRx
    /\ cbRuns = 0
    /\ discCalls = 0
    /\ discDone = 0
    /\ listAfterFirst = <<>>
    /\ sinceTimeArm = 0
    /\ staleTick = FALSE

\* The codec has been given nothing.
CodecIdle ==
    /\ given = "none"
    /\ codecPc = "idle"
    /\ wire = <<>>
    /\ rmh = ZeroHeader
    /\ out = <<>>
    /\ back = ZeroHeader
    /\ dbk = NoKeys

OrderIdle ==
    /\ slice = <<>>
    /\ lessRet = NoLess

\* The local header cache, just opened on an empty store.
CacheEmpty ==
    /\ kv = <<>>
    /\ Count = 0
    /\ sweep = NoSweep
    /\ interrupts = 0
    /\ ret = NoReturn

\* main has started nothing yet: the refresh goroutine is before its first
\* sleep, the store holds no file, no handler has been constructed.
\* (RefreshInterval is the 60 of line 198.)
RefreshInterval == 60

\* The handlers the registry is followed for.
MaxHandlers == 3

Handlers == 1..MaxHandlers

NodeIdle ==
    /\ refresh = [pc |-> "sleepSync", slept |-> 0, last |-> "none"]
    /\ blobs = <<>>
    /\ stage = [h \in Handlers |-> "new"]

Init == HandlerInit /\ CodecIdle /\ OrderIdle /\ CacheEmpty /\ NodeIdle

Quiet == lastEmit' = "none" /\ lastRx' = NoRx /\ staleTick' = FALSE

\* NewWSProtocolHandler up to the return of wsh.setup() (lines 58-67, 257-276):
\* the timers are armed, the handlers registered, the two goroutines started.
Setup(remote) ==
    /\ panicked = NoPanic
    /\ ctor = "start"
    /\ ctor' = "setup"
    /\ remoteSet' = remote.set
    /\ remoteCache' = remote.cache
    /\ remoteStatus' = remote.status
    /\ timers' = [x \in TimerNames |-> NewTimer(Duration(x))]
    /\ pc' = [pc EXCEPT !["loop"] = "select", !["peers0"] = "ready", !["rx"] = "ready"]
    /\ sinceTimeArm' = 0
    /\ Quiet
    /\ UNCHANGED <<codecVars, orderVars, cacheVars, nodeVars>>
    /\ UNCHANGED <<disconnect, todo, cur, wsHandlerList, panicked, now,
                   localCache, peers, target, tmpStatus,
                   remoteServerTime, cbRuns, discCalls, discDone, listAfterFirst>>

\* NewWSProtocolHandler, lines 68-71: the handler joins the list and the
\* caller gets it.
Register ==
    /\ panicked = NoPanic
    /\ ctor = "setup"
    /\ ctor' = "done"
    /\ wsHandlerList' = Append(wsHandlerList, Self)
    /\ pc' = [pc EXCEPT !["app"] = "ready"]
    /\ Quiet
    /\ UNCHANGED <<codecVars, orderVars, cacheVars, nodeVars>>
    /\ UNCHANGED <<remoteSet, disconnect, timers, todo, cur, panicked, now,
                   remoteCache, localCache, peers, target, tmpStatus, remoteStatus,
                   remoteServerTime, cbRuns, discCalls, discDone, listAfterFirst,
                   sinceTimeArm>>

\* Quantum seconds pass.
Tick ==
    /\ panicked = NoPanic
    /\ ctor # "start"
    /\ timers' = [x \in TimerNames |-> TimerAdvance(timers[x])]
    /\ now' = Min(now + Quantum, NowCap)
    /\ sinceTimeArm' = Min(sinceTimeArm + Quantum, DefaultTimeTickle)
    /\ Quiet
    /\ UNCHANGED <<codecVars, orderVars, cacheVars, nodeVars>>
    /\ UNCHANGED <<ctor, remoteSet, disconnect, pc, todo, cur, wsHandlerList, panicked,
                   remoteCache, localCache, peers, target, tmpStatus, remoteStatus,
                   remoteServerTime, cbRuns, discCalls, discDone, listAfterFirst>>

\* eventLoop, case <-wsh.watchdog.C (lines 316-319).
LoopWatchdog ==
    /\ At("loop", "select")
    /\ timers["watchdog"].c = 1
    /\ Disconnect("loop", [timers EXCEPT !["watchdog"] = TimerDrain(@)])

\* eventLoop: a tickle's tick is received (lines 320, 330, 340).
LoopTake(x, case) ==
    /\ At("loop", "select")
    /\ timers[x].c = 1
    /\ timers' = [timers EXCEPT ![x] = TimerDrain(@)]
    /\ pc' = [pc EXCEPT !["loop"] = case]
    /\ Quiet
    /\ UNCHANGED <<codecVars, orderVars, cacheVars, nodeVars>>
    /\ UNCHANGED <<ctor, remoteSet, disconnect, todo, cur, wsHandlerList, panicked, now,
                   remoteCache, localCache, peers, target, tmpStatus, remoteStatus,
                   remoteServerTime, cbRuns, discCalls, discDone, listAfterFirst,
                   sinceTimeArm>>

\* eventLoop: the rest of a tickle's case: the emit and the Reset.
LoopEmit(case, event, x) ==
    /\ At("loop", case)
    /\ timers' = [timers EXCEPT ![x] = TimerReset(@, Duration(x))]
    /\ pc' = [pc EXCEPT !["loop"] = "select"]
    /\ lastEmit' = event
    /\ lastRx' = NoRx
    /\ staleTick' = FALSE
    /\ sinceTimeArm' = IF x = "timeTickle" THEN 0 ELSE sinceTimeArm
    /\ UNCHANGED <<ctor, remoteSet, disconnect, todo, cur, wsHandlerList, panicked, now,
                   remoteCache, localCache, peers, target, tmpStatus, remoteStatus,
                   remoteServerTime, cbRuns, discCalls, discDone, listAfterFirst>>
    /\ UNCHANGED <<codecVars, orderVars, cacheVars, nodeVars>>

\* The timer each case of eventLoop resets (lines 328, 338, 348).
timeCaseResets == "timeTickle"

statusCaseResets == "statusTickle"

peersCaseResets == "statusTickle"

LoopTimeTickle == LoopTake("timeTickle", "timeCase")

LoopTimeEmit == LoopEmit("timeCase", "request-time", timeCaseResets)

LoopStatusTickle == LoopTake("statusTickle", "statusCase")

LoopStatusEmit == LoopEmit("statusCase", "request-status", statusCaseResets)

LoopPeersTickle == LoopTake("peersTickle", "peersCase")

LoopPeersEmit == LoopEmit("peersCase", "request-peers", peersCaseResets)

\* A nil entry of wsHandlerList.
NilHandler == 0

\* The removal that cuts the list short without moving its last entry.
RemoveHandlerNoSwap(list, h) == SubSeq(list, 1, Len(list) - 1)

\* wsHandlerList without its first entry h: the last entry takes its place,
\* the last place is set to nil and cut off (lines 296-303).
RemoveHandler(list, h) ==
    LET i == CHOOSE k \in 1..Len(list) :
                 list[k] = h /\ \A j \in 1..(k - 1) : list[j] # h
        moved == [list EXCEPT ![i] = list[Len(list)]]
        cleared == [moved EXCEPT ![Len(list)] = NilHandler]
    IN  SubSeq(cleared, 1, Len(list) - 1)

\* Disconnect from its send on wsh.abort (lines 292-304): eventLoop, in its
\* select, receives it and returns (lines 350-353); the sender then takes the
\* handler out of the list, or panics when it is not there.
AbortRendezvous(T) ==
    /\ T # "loop"
    /\ At(T, "abort")
    /\ pc["loop"] = "select"
    /\ IF Self \in Range(wsHandlerList)
       THEN /\ wsHandlerList' = RemoveHandler(wsHandlerList, Self)
            /\ pc' = [pc EXCEPT !["loop"] = "done",
                                ![T] = IF T = "rx" THEN "done" ELSE "ready"]
            /\ discDone' = discDone + 1
            /\ listAfterFirst' = IF discDone = 0 THEN wsHandlerList' ELSE listAfterFirst
            /\ cur' = [cur EXCEPT ![T] = NoOp]
            /\ panicked' = panicked
       ELSE /\ panicked' = NotInList
            /\ pc' = [pc EXCEPT !["loop"] = "done"]
            /\ UNCHANGED <<wsHandlerList, discDone, listAfterFirst, cur>>
    /\ Quiet
    /\ UNCHANGED <<codecVars, orderVars, cacheVars, nodeVars>>
    /\ UNCHANGED <<ctor, remoteSet, disconnect, timers, todo, now, remoteCache,
                   localCache, peers, target, tmpStatus, remoteStatus,
                   remoteServerTime, cbRuns, discCalls, sinceTimeArm>>

\* The inbound event handlers, as registered by setup (lines 263-269).
txTime(t) == At("rx", "ready") /\ Call("rx", Op("txTime", t))

rxTime(t) == At("rx", "ready") /\ Call("rx", Op("rxTime", t))

txStatus == At("rx", "ready") /\ Call("rx", Op("txStatus", 0))

rxStatus(m) == At("rx", "ready") /\ Call("rx", Op("rxStatus", m))

txPeers == At("rx", "ready") /\ Call("rx", Op("txPeers", 0))

rxPeer(m) == At("rx", "ready") /\ Call("rx", Op("rxPeer", m))

\* rxHeader(s), s the i-th sample: Deserialize panics, fails or succeeds
\* (lines 210-231).
rxHeader(i) ==
    /\ At("rx", "ready")
    /\ IF Parsed[i].panic \/ Parsed[i].err
       THEN /\ panicked' = IF Parsed[i].panic THEN SliceBounds ELSE NoPanic
            /\ lastRx' = Rx("response-header", i)
            /\ lastEmit' = "none"
            /\ staleTick' = FALSE
            /\ UNCHANGED <<ctor, remoteSet, disconnect, timers, pc, todo, cur,
                           wsHandlerList, now, remoteCache, localCache, peers, target,
                           tmpStatus, remoteStatus, remoteServerTime, cbRuns,
                           discCalls, discDone, listAfterFirst, sinceTimeArm>>
            /\ UNCHANGED <<codecVars, orderVars, cacheVars, nodeVars>>
       ELSE Call("rx", Op("rxHeader", i))

\* The transport's close callback (lines 270-272).
TransportClose == At("rx", "ready") /\ Disconnect("rx", timers)

\* go wsh.txPeers(0) (line 275).
InitialTxPeers == At("peers0", "ready") /\ Call("peers0", Op("txPeers", 0))

\* The WSProtocolHandler interface, called by the application.
OnDisconnect ==
    /\ At("app", "ready")
    /\ disconnect' = TRUE
    /\ Quiet
    /\ UNCHANGED <<codecVars, orderVars, cacheVars, nodeVars>>
    /\ UNCHANGED <<ctor, remoteSet, timers, pc, todo, cur, wsHandlerList, panicked, now,
                   remoteCache, localCache, peers, target, tmpStatus, remoteStatus,
                   remoteServerTime, cbRuns, discCalls, discDone, listAfterFirst,
                   sinceTimeArm>>

\* wsh.remote = rhc (lines 91-93): the handler's remote cache, and with it
\* the status Status() returns, are from now on those of rhc.
AdoptRemote(remote) ==
    /\ At("app", "ready")
    /\ remoteSet' = remote.set
    /\ remoteCache' = remote.cache
    /\ remoteStatus' = remote.status
    /\ Quiet
    /\ UNCHANGED <<codecVars, orderVars, cacheVars, nodeVars>>
    /\ UNCHANGED <<ctor, disconnect, timers, pc, todo, cur, wsHandlerList, panicked, now,
                   localCache, peers, target, tmpStatus,
                   remoteServerTime, cbRuns, discCalls, discDone, listAfterFirst,
                   sinceTimeArm>>

\* wsh.Status() (lines 249-255); 0 is nil, or the zero value of remote.status.
Status == IF remoteSet THEN remoteStatus ELSE tmpStatus

TxHeader ==
    /\ At("app", "ready")
    /\ lastEmit' = "response-header"
    /\ lastRx' = NoRx
    /\ staleTick' = FALSE
    /\ UNCHANGED <<ctor, remoteSet, disconnect, timers, pc, todo, cur, wsHandlerList,
                   panicked, now, remoteCache, localCache, peers, target, tmpStatus,
                   remoteStatus, remoteServerTime, cbRuns, discCalls, discDone,
                   listAfterFirst, sinceTimeArm>>
    /\ UNCHANGED <<codecVars, orderVars, cacheVars, nodeVars>>

RequestStatus == At("app", "ready") /\ Call("app", Op("RequestStatus", 0))

ExplicitDisconnect ==
    /\ At("app", "ready")
    /\ discCalls < MaxDisconnectCalls
    /\ Disconnect("app", timers)

\* SetTarget that takes the Start of the sector and keeps the old Ring.
SetTargetStartOnly(sec) ==
    /\ panicked = NoPanic
    /\ target # sec
    /\ target' = [target EXCEPT !.Start = sec.Start]
    /\ Quiet
    /\ UNCHANGED <<codecVars, orderVars, cacheVars, nodeVars>>
    /\ UNCHANGED <<ctor, remoteSet, disconnect, timers, pc, todo, cur, wsHandlerList,
                   panicked, now, remoteCache, localCache, peers, tmpStatus,
                   remoteStatus, remoteServerTime, cbRuns, discCalls, discDone,
                   listAfterFirst, sinceTimeArm>>

\* ms.SetTarget(target) (part_001, line 177).
SetTarget(sec) ==
    /\ panicked = NoPanic
    /\ target # sec
    /\ target' = sec
    /\ Quiet
    /\ UNCHANGED <<codecVars, orderVars, cacheVars, nodeVars>>
    /\ UNCHANGED <<ctor, remoteSet, disconnect, timers, pc, todo, cur, wsHandlerList,
                   panicked, now, remoteCache, localCache, peers, tmpStatus,
                   remoteStatus, remoteServerTime, cbRuns, discCalls, discDone,
                   listAfterFirst, sinceTimeArm>>

(***************************************************************************)
(* The codec at work: a caller parses a string it was sent and serializes  *)
(* the header again (rxHeader, then get_headers or TxHeader), or           *)
(* serializes a header it holds and parses the string; and the cache asks  *)
(* a parsed header for its database keys.                                  *)
(***************************************************************************)
\* Identifiers that begin with the bytes of a key prefix: E0 and BE32(1), C0
\* and BE32(1000).
IdE == <<224, 0, 0, 0, 1>> \o Rep(238, 28)

IdC == <<192, 0, 0, 3, 232>> \o Rep(204, 28)

CodecIds == {IdA, IdB, IdE}

CodecTimes == {TimeSent, U32Max}

CodecExpires == {ExpireSoon, U32Max}

\* A v1 string of 338 characters: r and s are 28 bytes each.
WireV1Short ==
    StrM0100 \o <<":">> \o Sprintf08X(TimeSent) \o <<":">> \o Sprintf08X(U32Max)
    \o <<":">> \o Chars(IdA) \o <<":">> \o Chars(PointJ) \o <<":">> \o Chars(PointK)
    \o <<":">> \o Chars(Rep(51, 28)) \o <<":">> \o Chars(Rep(68, 28))

\* A v2 string of 257 characters, one of 200, and one of 256 whose last four
\* are line breaks.
WireV2Long == B64Encode(BinaryV2(MagicV2, U32Max, IdA)) \o <<"A">>

WireV2Middle == Take(B64Encode(BinaryV2(MagicV2, U32Max, IdA)), 200)

WireV2Breaks == Take(B64Encode(BinaryV2(MagicV2, U32Max, IdA)), 252) \o Rep("\n", 4)

CodecWires ==
    {WireV1(Sprintf08X(t), Sprintf08X(e), id) :
        t \in CodecTimes, e \in CodecExpires, id \in CodecIds}
    \cup {B64Encode(BinaryV2(MagicV2, e, id)) : e \in CodecExpires, id \in CodecIds}
    \cup {B64Encode(BinaryShortV2(MagicV2, e, id)) : e \in CodecExpires, id \in CodecIds}
    \cup {SampleWire[i] : i \in 4..Len(SampleWire)}
    \cup {WireV1Short, WireV2Long, WireV2Middle, WireV2Breaks}

\* Headers as the data model has them, one of each version.
HeaderV1(id) ==
    [version |-> Str0100, time |-> TimeSent, expire |-> U32Max,
     I |-> id, J |-> PointJ, K |-> PointK,
     blocklen |-> U32Zero, reserved |-> Rep(0, 8),
     r |-> SigR, s |-> SigS, nonce |-> Rep(0, 8)]

HeaderV2(id) ==
    [HeaderV1(id) EXCEPT !.version = Str0200, !.blocklen = <<0, 0, 1, 0>>,
                         !.nonce = <<0, 0, 0, 255, 0, 0, 0, 9>>]

CodecHeaders == {HeaderV1(id) : id \in CodecIds} \cup {HeaderV2(id) : id \in CodecIds}

\* The arrival times dbKeys is given.
CodecServerTimes == {BE32(Epoch), U32Max}

CodecInit ==
    /\ HandlerInit
    /\ OrderIdle
    /\ CacheEmpty
    /\ NodeIdle
    /\ \/ given = "string" /\ wire \in CodecWires /\ rmh = ZeroHeader
       \/ given = "header" /\ wire = <<>> /\ rmh \in CodecHeaders
    /\ codecPc = "start"
    /\ out = <<>>
    /\ back = ZeroHeader
    /\ dbk = NoKeys

\* Where the caller is after Deserialize returned res; no is the place when
\* it returned an error.
AfterDeserialize(res, yes, no) ==
    IF res.panic THEN "panicked" ELSE IF res.err THEN no ELSE yes

\* rmh := &RawMessageHeader{}; err := rmh.Deserialize(wire)
CallDeserialize ==
    /\ panicked = NoPanic
    /\ given = "string"
    /\ codecPc = "start"
    /\ LET res == Deserialize(ZeroHeader, wire)
       IN  /\ rmh' = res.z
           /\ panicked' = IF res.panic THEN SliceBounds ELSE NoPanic
           /\ codecPc' = AfterDeserialize(res, "parsed", "failed")
    /\ UNCHANGED <<given, wire, out, back, dbk>>
    /\ UNCHANGED <<handlerVars, now, target, orderVars, cacheVars, nodeVars>>

\* out := rmh.Serialize()
CallSerialize ==
    /\ panicked = NoPanic
    /\ \/ given = "string" /\ codecPc = "parsed"
       \/ given = "header" /\ codecPc = "start"
    /\ LET res == Serialize(rmh)
       IN  /\ out' = res.v
           /\ panicked' = res.panic
           /\ codecPc' = IF res.panic # NoPanic THEN "panicked" ELSE "serialized"
    /\ UNCHANGED <<given, wire, rmh, back, dbk>>
    /\ UNCHANGED <<handlerVars, now, target, orderVars, cacheVars, nodeVars>>

\* back := &RawMessageHeader{}; err := back.Deserialize(out)
CallDeserializeAgain ==
    /\ panicked = NoPanic
    /\ codecPc = "serialized"
    /\ LET res == Deserialize(ZeroHeader, out)
       IN  /\ back' = res.z
           /\ panicked' = IF res.panic THEN SliceBounds ELSE NoPanic
           /\ codecPc' = AfterDeserialize(res, "reparsed", "refused")
    /\ UNCHANGED <<given, wire, rmh, out, dbk>>
    /\ UNCHANGED <<handlerVars, now, target, orderVars, cacheVars, nodeVars>>

\* dbk, err := rmh.dbKeys(servertime)
CalldbKeys(servertime) ==
    /\ panicked = NoPanic
    /\ given = "string"
    /\ codecPc = "parsed"
    /\ dbk = NoKeys
    /\ dbk' = dbKeys(rmh, servertime)
    /\ UNCHANGED <<given, codecPc, wire, rmh, out, back>>
    /\ UNCHANGED <<handlerVars, panicked, now, target, orderVars, cacheVars, nodeVars>>

CodecNext ==
    \/ CallDeserialize
    \/ CallSerialize
    \/ CallDeserializeAgain
    \/ \E servertime \in CodecServerTimes : CalldbKeys(servertime)

CodecSpec == CodecInit /\ [][CodecNext]_vars

(***************************************************************************)
(* JSON (header.go:404-420).  Integers are big-endian byte sequences of    *)
(* their width.  TimeStr and ExpireStr, the formatted dates, are left out. *)
(***************************************************************************)
\* b + 1 in the width of b: the carry out of the first byte is dropped.
RECURSIVE AddOne(_)
AddOne(b) ==
    IF b = <<>> THEN <<>>
    ELSE IF b[Len(b)] = 255 THEN AddOne(Take(b, Len(b) - 1)) \o <<0>>
    ELSE [b EXCEPT ![Len(b)] = @ + 1]

\* b * k + carry in the width of b, for k up to 256.
RECURSIVE MulCarry(_, _, _)
MulCarry(b, k, carry) ==
    IF b = <<>> THEN <<>>
    ELSE LET p == b[Len(b)] * k + carry
         IN  MulCarry(Take(b, Len(b) - 1), k, p \div 256) \o <<p % 256>>

\* uint64(v) of a uint32 v.
Uint64(v) == U32Zero \o v

JSON(z) ==
    [Version |-> z.version,
     Time |-> z.time,
     Expire |-> z.expire,
     I |-> HexEncodeToString(z.I),
     J |-> HexEncodeToString(z.J),
     K |-> HexEncodeToString(z.K),
     Size |-> MulCarry(Uint64(AddOne(z.blocklen)), MessageHeaderLengthB64V2, 0),
     R |-> HexEncodeToString(z.r),
     S |-> HexEncodeToString(z.s),
     Nonce |-> z.nonce]

\* Block counts of both ends and of each carry of the increment.
JSONBlocklens ==
    {U32Zero, <<0, 0, 0, 7>>, <<0, 0, 0, 255>>, <<0, 0, 255, 255>>,
     <<0, 255, 255, 255>>, <<255, 255, 255, 254>>, U32Max}

\* The strings of the v2 headers with these block counts, and one v1 string.
JSONWires ==
    {Serialize([HeaderV2(id) EXCEPT !.blocklen = b]).v :
        id \in CodecIds, b \in JSONBlocklens}
    \cup {WireV1(Sprintf08X(TimeSent), Sprintf08X(U32Max), IdA)}

JSONInit ==
    /\ HandlerInit
    /\ OrderIdle
    /\ CacheEmpty
    /\ NodeIdle
    /\ given = "string"
    /\ wire \in JSONWires
    /\ rmh = ZeroHeader
    /\ codecPc = "start"
    /\ out = <<>>
    /\ back = ZeroHeader
    /\ dbk = NoKeys

\* j := rmh.JSON()
CallJSON ==
    /\ panicked = NoPanic
    /\ given = "string"
    /\ codecPc = "parsed"
    /\ ret = NoReturn
    /\ ret' = [op |-> "JSON", h |-> rmh, json |-> JSON(rmh)]
    /\ UNCHANGED <<kv, Count, sweep, interrupts>>
    /\ UNCHANGED <<handlerVars, panicked, now, target, codecVars, orderVars, nodeVars>>

JSONNext ==
    \/ CallDeserialize
    \/ CallJSON
    \/ CallSerialize
    \/ CallDeserializeAgain

JSONSpec == JSONInit /\ [][JSONNext]_vars

(***************************************************************************)
(* The local header cache over its ordered key-value store.  The code of   *)
(* the cache is not in the source files: Insert, FindByI, FindSince and    *)
(* the expiry sweep are modelled from the specification (4.2, 4.3), over   *)
(* the keys that dbKeys (header.go) makes.  The value kept under a key is  *)
(* modelled by what the cache reads from it: the header and its arrival    *)
(* time.                                                                   *)
(***************************************************************************)
Put(store, k, v) == [x \in DOMAIN store \cup {k} |-> IF x = k THEN v ELSE store[x]]

Delete(store, k) == [x \in DOMAIN store \ {k} |-> store[x]]

\* NewIterator(range = [start, limit)): the entries in ascending byte order.
Iterate(store, start, limit) ==
    LET S == {k \in DOMAIN store : ~BytesLess(k, start) /\ BytesLess(k, limit)}
        nth(i) == CHOOSE k \in S : Cardinality({x \in S : BytesLess(x, k)}) = i - 1
    IN  [i \in 1..Cardinality(S) |-> [key |-> nth(i), val |-> store[nth(i)]]]

Nil == [nil |-> TRUE]

\* Insert(header) at time t: dedup on the presence key, then the expiry
\* check, then the four entries and Count.
Insert(store, count, h, t) ==
    LET keys == dbKeys(h, BE32(t))
        v == [h |-> h, servertime |-> BE32(t)]
    IN  IF keys.I \in DOMAIN store
        THEN [kv |-> store, Count |-> count, inserted |-> FALSE, err |-> "nil"]
        ELSE IF U32Leq(h.expire, BE32(t))
        THEN [kv |-> store, Count |-> count, inserted |-> FALSE, err |-> "HeaderExpired"]
        ELSE [kv |-> Put(Put(Put(Put(store, keys.date, v), keys.servertime, v),
                             keys.expire, v), keys.I, v),
              Count |-> count + 1, inserted |-> TRUE, err |-> "nil"]

\* FindByI(I): Get of the presence key, then of the date key; a missing date
\* entry is a miss.
FindByI(store, I) ==
    IF I \notin DOMAIN store THEN Nil
    ELSE LET date == dbKeys(store[I].h, store[I].servertime).date
         IN  IF date \in DOMAIN store THEN store[date].h ELSE Nil

\* FindSince(sinceUnix): the range scan from C0||BE32(sinceUnix) to
\* C0||BE32(0xFFFFFFFF).
FindSince(store, since) ==
    LET found == Iterate(store, KeyPrefix(<<"C", "0">>, since),
                         KeyPrefix(<<"C", "0">>, U32Max))
    IN  [i \in 1..Len(found) |-> found[i].val.h]

\* The entries the expiry sweep scans at time t: E0 from BE32(0) through
\* BE32(t).
SweepScan(store, t) ==
    Iterate(store, KeyPrefix(<<"E", "0">>, U32Zero), KeyPrefix(<<"E", "0">>, BE32(t)))

\* The keys the sweep deletes for an entry, in its order.
SweepKeys(entry) ==
    LET keys == dbKeys(entry.val.h, entry.val.servertime)
    IN  <<keys.date, keys.expire, keys.servertime, keys.I>>

\* The headers the cache is given: two whose identifiers are curve points
\* (first byte 02, and 80 as a plain byte), one that expires soon, and two
\* whose identifiers begin with the bytes of a key prefix.
CacheHeader(id, e) == [HeaderV2(id) EXCEPT !.expire = e]

CacheHeaders ==
    {CacheHeader(IdA, ExpireSoon), CacheHeader(IdB, U32Max),
     CacheHeader(IdE, U32Max), CacheHeader(IdC, ExpireSoon)}

SinceTimes == {U32Zero, BE32(Epoch + Quantum), U32Max}

\* At most this many sweeps are interrupted.
MaxInterrupts == 1

Locked == sweep # NoSweep

CallInsert(h) ==
    /\ panicked = NoPanic
    /\ ~Locked
    /\ LET res == Insert(kv, Count, h, now)
       IN  /\ kv' = res.kv
           /\ Count' = res.Count
           /\ ret' = [op |-> "Insert", h |-> h, inserted |-> res.inserted,
                      err |-> res.err,
                      repeat |-> (ret.op = "Insert" /\ ret.h = h /\ ret.inserted)]
    /\ UNCHANGED <<sweep, interrupts>>
    /\ UNCHANGED <<handlerVars, panicked, now, target, codecVars, orderVars, nodeVars>>

CallFindByI(I) ==
    /\ panicked = NoPanic
    /\ ~Locked
    /\ ret' = [op |-> "FindByI", I |-> I, found |-> FindByI(kv, I)]
    /\ UNCHANGED <<kv, Count, sweep, interrupts>>
    /\ UNCHANGED <<handlerVars, panicked, now, target, codecVars, orderVars, nodeVars>>

CallFindSince(since) ==
    /\ panicked = NoPanic
    /\ ~Locked
    /\ ret' = [op |-> "FindSince", since |-> since, headers |-> FindSince(kv, since)]
    /\ UNCHANGED <<kv, Count, sweep, interrupts>>
    /\ UNCHANGED <<handlerVars, panicked, now, target, codecVars, orderVars, nodeVars>>

\* The sweep starts: it scans the expiry subspace.  With nothing to delete it
\* is complete at once.
SweepStart ==
    /\ panicked = NoPanic
    /\ ~Locked
    /\ LET scan == SweepScan(kv, now)
       IN  IF scan = <<>>
           THEN /\ ret' = [op |-> "sweep", complete |-> TRUE, before |-> kv, at |-> now]
                /\ UNCHANGED sweep
           ELSE /\ sweep' = [entries |-> scan, step |-> 0, before |-> kv, at |-> now]
                /\ ret' = [op |-> "sweep", complete |-> FALSE, before |-> kv, at |-> now]
    /\ UNCHANGED <<kv, Count, interrupts>>
    /\ UNCHANGED <<handlerVars, panicked, now, target, codecVars, orderVars, nodeVars>>

\* The sweep's next write: one of the four deletes of its current entry, or
\* the decrement of Count that ends the entry.
SweepStep ==
    /\ panicked = NoPanic
    /\ Locked
    /\ IF sweep.step < 4
       THEN /\ kv' = Delete(kv, SweepKeys(Head(sweep.entries))[sweep.step + 1])
            /\ sweep' = [sweep EXCEPT !.step = @ + 1]
            /\ UNCHANGED <<Count, ret>>
       ELSE /\ Count' = Count - 1
            /\ sweep' = IF Len(sweep.entries) = 1 THEN NoSweep
                        ELSE [sweep EXCEPT !.entries = Tail(@), !.step = 0]
            /\ ret' = IF Len(sweep.entries) = 1
                      THEN [op |-> "sweep", complete |-> TRUE, before |-> sweep.before,
                            at |-> sweep.at]
                      ELSE ret
            /\ UNCHANGED kv
    /\ UNCHANGED interrupts
    /\ UNCHANGED <<handlerVars, panicked, now, target, codecVars, orderVars, nodeVars>>

\* The sweep stops where it is (a storage error is fatal for the operation).
SweepInterrupt ==
    /\ panicked = NoPanic
    /\ Locked
    /\ interrupts < MaxInterrupts
    /\ interrupts' = interrupts + 1
    /\ sweep' = NoSweep
    /\ ret' = [op |-> "sweep", complete |-> FALSE, before |-> sweep.before,
               at |-> sweep.at]
    /\ UNCHANGED <<kv, Count>>
    /\ UNCHANGED <<handlerVars, panicked, now, target, codecVars, orderVars, nodeVars>>

\* Quantum seconds pass.
Elapse ==
    /\ panicked = NoPanic
    /\ ~Locked
    /\ now < NowCap
    /\ now' = Min(now + Quantum, NowCap)
    /\ UNCHANGED <<handlerVars, panicked, target, codecVars, orderVars, cacheVars, nodeVars>>

CacheNext ==
    \/ \E h \in CacheHeaders : CallInsert(h)
    \/ \E h \in CacheHeaders : CallFindByI(h.I)
    \/ \E since \in SinceTimes : CallFindSince(since)
    \/ SweepStart
    \/ SweepStep
    \/ SweepInterrupt
    \/ Elapse

CacheSpec == Init /\ [][CacheNext]_vars

(***************************************************************************)
(* The message store's admission of an uploaded file (upload_message calls *)
(* ms.InsertFile, part_001 line 435).  The code of the store is not in the *)
(* source files: InsertFile is modelled from the specification (4.4): the  *)
(* sector test on the 10-bit prefix of I, then the insertion into the      *)
(* local cache.                                                            *)
(***************************************************************************)
InsertFile(sec, store, count, h, t) ==
    IF ~InSector(sec, h.I)
    THEN [kv |-> store, Count |-> count, err |-> "OutOfSector"]
    ELSE LET res == Insert(store, count, h, t)
         IN  [kv |-> res.kv, Count |-> res.Count,
              err |-> IF res.inserted THEN "nil"
                      ELSE IF res.err = "HeaderExpired" THEN "Expired"
                      ELSE "Duplicate"]

\* An identifier with the given first two bytes.
IdWith(b1, b2) == <<b1, b2>> \o Rep(17, 31)

\* Uploaded headers whose prefixes are 0x200, 0x201, the two beside them,
\* 0x3FF, 0x000 and 0x00A.
StoreHeaders ==
    {CacheHeader(id, U32Max) :
        id \in {IdA, IdWith(128, 64), IdWith(127, 192), IdWith(128, 128),
                IdWith(255, 192), IdWith(0, 0), IdB}}

\* The sectors the store is given: those of the gossip, one that wraps past
\* 0x3FF, and one of a single bin.
StoreSectors ==
    SampleSectors \cup {[Start |-> 1023, Ring |-> 1], [Start |-> 512, Ring |-> 0]}

CallInsertFile(h) ==
    /\ panicked = NoPanic
    /\ LET res == InsertFile(target, kv, Count, h, now)
       IN  /\ kv' = res.kv
           /\ Count' = res.Count
           /\ ret' = [op |-> "InsertFile", h |-> h, err |-> res.err]
    /\ UNCHANGED <<sweep, interrupts>>
    /\ UNCHANGED <<handlerVars, panicked, now, target, codecVars, orderVars, nodeVars>>

StoreNext ==
    \/ \E sec \in StoreSectors : SetTarget(sec)
    \/ \E h \in StoreHeaders : CallInsertFile(h)

StoreSpec == Init /\ [][StoreNext]_vars

(***************************************************************************)
(* The node: main's refresh goroutine (part_001, lines 186-198) beside the *)
(* HTTP handler of POST /api/v2/messages (upload_message, lines 392-442).  *)
(* Ingest, Move and InsertFile are not in the source files: Move is taken  *)
(* as the rename it is described as (the file at the destination is        *)
(* replaced), and InsertFile unlinks the file it rejects as out of sector  *)
(* (specification, 4.4 and 7).                                             *)
(***************************************************************************)
\* time.Sleep(time.Second * time.Duration(interval/2)), lines 189 and 193.
RefreshSleep ==
    /\ panicked = NoPanic
    /\ refresh.pc \in {"sleepSync", "sleepDiscover"}
    /\ refresh.slept = 0
    /\ refresh' = [refresh EXCEPT !.slept = RefreshInterval \div 2]
    /\ now' = Min(now + RefreshInterval \div 2, NowCap)
    /\ UNCHANGED <<blobs, stage>>
    /\ UNCHANGED <<handlerVars, panicked, target, codecVars, orderVars, cacheVars>>

\* The goroutine goes from place p to place q; ran is the phase it starts.
RefreshStep(p, q, ran) ==
    /\ panicked = NoPanic
    /\ refresh.pc = p
    /\ p \in {"sleepSync", "sleepDiscover"} => refresh.slept # 0
    /\ refresh' = [pc |-> q, slept |-> 0,
                   last |-> IF ran = "none" THEN refresh.last ELSE ran]
    /\ UNCHANGED <<blobs, stage>>
    /\ UNCHANGED <<handlerVars, panicked, now, target, codecVars, orderVars, cacheVars>>

\* ms.Sync() is called (line 191) and returns to the second sleep (line 193).
RefreshSync == RefreshStep("sleepSync", "Sync", "Sync")

\* Sync that returns to the top of the loop.
RefreshSyncReturnToTop == RefreshStep("Sync", "sleepSync", "none")

RefreshSyncReturn == RefreshStep("Sync", "sleepDiscover", "none")

\* ms.LHC.DiscoverPeers(...) is called (line 195) and returns; the loop
\* prints the status and starts again (lines 196-197).
RefreshDiscover == RefreshStep("sleepDiscover", "DiscoverPeers", "DiscoverPeers")

RefreshDiscoverReturn == RefreshStep("DiscoverPeers", "sleepSync", "none")

\* The content of an uploaded file after its header.
Bodies == 1..2

\* Uploaded headers: two that do not expire, with prefixes 0x200 and 0x00A,
\* and one that expired when it was sent.
UploadHeaders ==
    {CacheHeader(IdA, U32Max), CacheHeader(IdB, U32Max),
     CacheHeader(IdWith(128, 64), TimeSent)}

\* upload_message once Ingest has parsed the received file: m.Move(filemove)
\* puts the file at its place in the store (line 429), ms.InsertFile(filemove)
\* inserts its header (line 435), and an error ends the request with status
\* 500 (lines 436-439).
CallUpload(h, body) ==
    /\ panicked = NoPanic
    /\ LET moved == Put(blobs, h.I, body)
           res == InsertFile(target, kv, Count, h, now)
       IN  /\ kv' = res.kv
           /\ Count' = res.Count
           /\ blobs' = IF res.err = "OutOfSector" THEN Delete(moved, h.I) ELSE moved
           /\ ret' = [op |-> "upload", h |-> h, body |-> body, err |-> res.err,
                      status |-> IF res.err = "nil" THEN 200 ELSE 500]
    /\ UNCHANGED <<sweep, interrupts, refresh, stage>>
    /\ UNCHANGED <<handlerVars, panicked, now, target, codecVars, orderVars>>

NodeNext ==
    \/ RefreshSleep
    \/ RefreshSync
    \/ RefreshSyncReturn
    \/ RefreshDiscover
    \/ RefreshDiscoverReturn
    \/ \E h \in UploadHeaders, body \in Bodies : CallUpload(h, body)
    \/ \E sec \in SampleSectors : SetTarget(sec)

NodeSpec == Init /\ [][NodeNext]_vars

(***************************************************************************)
(* Sorting: sort.Sort calls Less and Swap on a RawMessageHeaderSlice.      *)
(***************************************************************************)
\* IdA with another last byte.
IdA1 == <<128>> \o Rep(0, 31) \o <<1>>

\* Headers of both versions: equal times with different I, equal I with
\* different times, and one whose I (parsed from a v1 string) is 2 bytes.
OrderHeaders ==
    {HeaderV2(IdA), HeaderV2(IdA1), HeaderV1(IdE),
     [HeaderV2(IdA) EXCEPT !.time = U32Max],
     [HeaderV1(IdA) EXCEPT !.I = <<128, 0>>]}

SliceLen == 3

OrderInit ==
    /\ HandlerInit
    /\ CodecIdle
    /\ CacheEmpty
    /\ NodeIdle
    /\ slice \in [1..SliceLen -> OrderHeaders]
    /\ lessRet = NoLess

CallLess(i, j) ==
    /\ panicked = NoPanic
    /\ LET res == Less(slice, i, j)
       IN  /\ panicked' = res.panic
           /\ lessRet' = IF res.panic # NoPanic THEN NoLess
                         ELSE [i |-> i, j |-> j, less |-> res.v]
    /\ UNCHANGED slice
    /\ UNCHANGED <<handlerVars, now, target, codecVars, cacheVars, nodeVars>>

\* The sort swaps the two headers that Less has just put in order.
CallSwap ==
    /\ panicked = NoPanic
    /\ lessRet # NoLess
    /\ lessRet.less
    /\ LET res == Swap(slice, lessRet.i, lessRet.j)
       IN  /\ panicked' = res.panic
           /\ slice' = IF res.panic # NoPanic THEN slice ELSE res.v
    /\ lessRet' = NoLess
    /\ UNCHANGED <<handlerVars, now, target, codecVars, cacheVars, nodeVars>>

OrderNext ==
    \/ \E i, j \in 1..SliceLen : CallLess(i, j)
    \/ CallSwap

OrderSpec == OrderInit /\ [][OrderNext]_vars

(***************************************************************************)
(* The specifications.  Spec is one connection's life with every goroutine *)
(* and every timer, at a handler without a remote cache and with two       *)
(* response-header payloads (one that parses, one that is empty).          *)
(* GossipSpec is the header traffic of a connection: every sample payload, *)
(* the two caches, the shard sector, the clock and the event loop.         *)
(***************************************************************************)
LifecycleWires == {1, 4}

Next ==
    \/ Setup(NoRemote)
    \/ Register
    \/ Tick
    \/ LoopWatchdog
    \/ LoopTimeTickle
    \/ LoopTimeEmit
    \/ LoopStatusTickle
    \/ LoopStatusEmit
    \/ LoopPeersTickle
    \/ LoopPeersEmit
    \/ \E T \in Threads : Wake(T)
    \/ \E T \in Threads : AbortRendezvous(T)
    \/ \E t \in TimePayloads : txTime(t)
    \/ \E t \in TimePayloads : rxTime(t)
    \/ txStatus
    \/ \E m \in StatusPayloads : rxStatus(m)
    \/ txPeers
    \/ \E m \in PeerPayloads : rxPeer(m)
    \/ \E i \in LifecycleWires : rxHeader(i)
    \/ TransportClose
    \/ InitialTxPeers
    \/ OnDisconnect
    \/ RequestStatus
    \/ ExplicitDisconnect

Spec == Init /\ [][Next]_vars

GossipNext ==
    \/ \E remote \in {NoRemote} \cup SampleRemotes : Setup(remote)
    \/ Register
    \/ Tick
    \/ LoopWatchdog
    \/ LoopTimeTickle
    \/ LoopTimeEmit
    \/ LoopStatusTickle
    \/ LoopStatusEmit
    \/ LoopPeersTickle
    \/ LoopPeersEmit
    \/ \E i \in 1..Len(SampleWire) : rxHeader(i)
    \/ \E remote \in SampleRemotes : AdoptRemote(remote)
    \/ TxHeader
    \/ \E sec \in SampleSectors : SetTarget(sec)

GossipSpec == Init /\ [][GossipNext]_vars

(***************************************************************************)
(* RegistrySpec is the global handler list with several handlers: each is  *)
(* constructed (setup, then the append under the mutex, lines 58-72) and   *)
(* disconnected (the removal under the mutex, lines 294-304).  A handler   *)
(* leaves the list at most once: a second Disconnect of it does not come   *)
(* as far as the list.                                                     *)
(***************************************************************************)
\* wsh.setup() has returned for handler h (line 67).
RegistrySetup(h) ==
    /\ panicked = NoPanic
    /\ stage[h] = "new"
    /\ stage' = [stage EXCEPT ![h] = "setup"]
    /\ UNCHANGED <<refresh, blobs>>
    /\ UNCHANGED <<handlerVars, panicked, now, target, codecVars, orderVars, cacheVars>>

\* wsHandlerList = append(wsHandlerList, &wsh) (lines 68-71).
RegistryAppend(h) ==
    /\ panicked = NoPanic
    /\ stage[h] = "setup"
    /\ stage' = [stage EXCEPT ![h] = "listed"]
    /\ wsHandlerList' = Append(wsHandlerList, h)
    /\ UNCHANGED <<refresh, blobs>>
    /\ UNCHANGED <<ctor, remoteSet, disconnect, timers, pc, todo, cur,
                   remoteCache, localCache, peers, tmpStatus, remoteStatus,
                   remoteServerTime, lastEmit, lastRx, cbRuns, discCalls, discDone,
                   listAfterFirst, sinceTimeArm, staleTick>>
    /\ UNCHANGED <<panicked, now, target, codecVars, orderVars, cacheVars>>

\* Disconnect of handler h from line 294: the removal, or the panic.
RegistryDisconnect(h) ==
    /\ panicked = NoPanic
    /\ stage[h] \in {"setup", "listed"}
    /\ IF h \in Range(wsHandlerList)
       THEN /\ wsHandlerList' = RemoveHandler(wsHandlerList, h)
            /\ stage' = [stage EXCEPT ![h] = "closed"]
            /\ UNCHANGED panicked
       ELSE /\ panicked' = NotInList
            /\ UNCHANGED <<wsHandlerList, stage>>
    /\ UNCHANGED <<refresh, blobs>>
    /\ UNCHANGED <<ctor, remoteSet, disconnect, timers, pc, todo, cur,
                   remoteCache, localCache, peers, tmpStatus, remoteStatus,
                   remoteServerTime, lastEmit, lastRx, cbRuns, discCalls, discDone,
                   listAfterFirst, sinceTimeArm, staleTick>>
    /\ UNCHANGED <<now, target, codecVars, orderVars, cacheVars>>

RegistryNext ==
    \/ \E h \in Handlers : RegistrySetup(h)
    \/ \E h \in Handlers : RegistryAppend(h)
    \/ \E h \in Handlers : RegistryDisconnect(h)

RegistrySpec == Init /\ [][RegistryNext]_vars

(***************************************************************************)
(* AdoptSpec is an inbound handler (constructed with no remote) that       *)
(* receives statuses, times and headers from its peer and is given a       *)
(* HeaderCache by AdoptRemote; the cache it is given has the zero status   *)
(* or one it obtained before.                                              *)
(***************************************************************************)
AdoptStatuses == 0..2

AdoptedRemotes == SampleRemotes \cup {[set |-> TRUE, cache |-> {}, status |-> 2]}

AdoptNext ==
    \/ Setup(NoRemote)
    \/ Register
    \/ \E m \in AdoptStatuses : rxStatus(m)
    \/ \E t \in TimePayloads : rxTime(t)
    \/ \E i \in 1..Len(SampleWire) : rxHeader(i)
    \/ \E remote \in AdoptedRemotes : AdoptRemote(remote)

AdoptSpec == Init /\ [][AdoptNext]_vars

(***************************************************************************)
(* FairSpec is the event loop and its timers with one inbound event and    *)
(* the application's Disconnect, under the scheduling the runtime gives:   *)
(* time passes, a goroutine that can run does run, and select, which picks *)
(* at random among the cases that are ready, does not pass over a case     *)
(* that is ready again and again.  The peer and the application are under  *)
(* no such obligation.                                                     *)
(***************************************************************************)
FairNext ==
    \/ Setup(NoRemote)
    \/ Register
    \/ Tick
    \/ LoopWatchdog
    \/ LoopTimeTickle
    \/ LoopTimeEmit
    \/ LoopStatusTickle
    \/ LoopStatusEmit
    \/ LoopPeersTickle
    \/ LoopPeersEmit
    \/ \E T \in Threads : Wake(T)
    \/ \E T \in Threads : AbortRendezvous(T)
    \/ \E t \in TimePayloads : rxTime(t)
    \/ OnDisconnect
    \/ ExplicitDisconnect

Fairness ==
    /\ WF_vars(Setup(NoRemote))
    /\ WF_vars(Register)
    /\ WF_vars(Tick)
    /\ SF_vars(LoopWatchdog)
    /\ SF_vars(LoopTimeTickle)
    /\ WF_vars(LoopTimeEmit)
    /\ SF_vars(LoopStatusTickle)
    /\ WF_vars(LoopStatusEmit)
    /\ SF_vars(LoopPeersTickle)
    /\ WF_vars(LoopPeersEmit)
    /\ \A T \in Threads : WF_vars(Wake(T))
    /\ \A T \in Threads : SF_vars(AbortRendezvous(T))

FairSpec == Init /\ [][FairNext]_vars /\ Fairness

(***************************************************************************)
(* C1.  Watchdog kill: once the event loop has taken the watchdog's tick   *)
(* and called Disconnect, the handler eventually is Closed: the event loop *)
(* has ended, the handler is no longer in the global handler list, and the *)
(* registered OnDisconnect callback has run exactly once.                  *)
(***************************************************************************)
\* The event loop has taken the watchdog's tick and is in Disconnect, no other
\* call of Disconnect having been made.
WatchdogKill == cur["loop"] = Op("Disconnect", 1)

Closed ==
    /\ pc["loop"] = "done"
    /\ Self \notin Range(wsHandlerList)
    /\ disconnect => cbRuns = 1

C1_WatchdogKillCloses == WatchdogKill ~> Closed

(***************************************************************************)
(* C2.  Disconnect is idempotent: the OnDisconnect callback never runs a   *)
(* second time, a call of Disconnect after the first neither blocks nor    *)
(* panics, and once a call has returned the handler list stays as that     *)
(* call left it.                                                           *)
(***************************************************************************)
LaterDisconnect(T) == cur[T].name = "Disconnect" /\ cur[T].arg > 1

C2_DisconnectIdempotent ==
    /\ cbRuns <= 1
    /\ \A T \in Threads : LaterDisconnect(T) => pc[T] # "wait"
    /\ \A T \in Threads : LaterDisconnect(T) /\ pc[T] = "abort" =>
           pc["loop"] # "done" /\ panicked # NotInList
    /\ discDone > 0 => wsHandlerList = listAfterFirst

(***************************************************************************)
(* C3.  A response-header that parses, at a handler with a remote cache:   *)
(* the header is given to the remote cache's Insert, and to the local      *)
(* cache's Insert if and only if the remote one returned inserted = true   *)
(* and no error; otherwise the local cache is left as it was.              *)
(***************************************************************************)
\* The handler of response-header has just ended, its payload sample i parsed.
RxParsedHeader(i) ==
    /\ lastRx = Rx("response-header", i)
    /\ ~Parsed[i].panic
    /\ ~Parsed[i].err

C3_LocalInsertFollowsRemote ==
    [][\A i \in 1..Len(SampleWire) :
          RxParsedHeader(i)' /\ remoteSet =>
              LET h == Parsed[i].z
                  remoteInsert == CacheInsert(remoteCache, h, now)
                  localInsert == CacheInsert(localCache, h, now)
              IN  /\ remoteCache' = remoteInsert.cache
                  /\ localCache' =
                         IF remoteInsert.inserted /\ ~remoteInsert.err
                         THEN localInsert.cache
                         ELSE localCache]_vars

\* A header the remote cache had already seen has been handled, and the local
\* cache, which did not hold it, still does not.
C3_SeenHeaderNotInsertedLocally ==
    \E i \in 1..Len(SampleWire) :
        /\ RxParsedHeader(i)
        /\ remoteSet
        /\ Parsed[i].z.I \in remoteCache
        /\ Parsed[i].z.I \notin localCache

(***************************************************************************)
(* C4.  Gossip with the sector filter: when the handler of a connection    *)
(* with a remote cache has handled a response-header whose identifier I    *)
(* is new to both caches and which has not expired, the remote cache holds *)
(* I, and the local cache holds I if and only if the node's shard sector   *)
(* admits I.                                                               *)
(***************************************************************************)
NewUnexpired(h) ==
    /\ h.I \notin remoteCache
    /\ h.I \notin localCache
    /\ ~U32Leq(h.expire, BE32(now))

C4_GossipSectorFilter ==
    [][\A i \in 1..Len(SampleWire) :
          RxParsedHeader(i)' /\ remoteSet /\ NewUnexpired(Parsed[i].z) =>
              /\ Parsed[i].z.I \in remoteCache'
              /\ Parsed[i].z.I \in localCache' <=> InSector(target, Parsed[i].z.I)]_vars

(***************************************************************************)
(* C5.  Every inbound event resets the watchdog: when the handler of       *)
(* request-time, response-time, request-status, response-status,           *)
(* request-peers, response-peer or of a response-header that parses has    *)
(* ended, whatever its payload, the watchdog is armed with the full        *)
(* DefaultWatchdogTimeout.                                                 *)
(***************************************************************************)
InboundEvents ==
    {"request-time", "response-time", "request-status", "response-status",
     "request-peers", "response-peer"}

InboundHandled ==
    \/ lastRx.ev \in InboundEvents
    \/ \E i \in 1..Len(SampleWire) : RxParsedHeader(i)

WatchdogFull ==
    timers["watchdog"].active /\ timers["watchdog"].rem = DefaultWatchdogTimeout

C5_InboundResetsWatchdog == InboundHandled => WatchdogFull

(***************************************************************************)
(* C6.  The three tickles are periodic: on a connection that never closes  *)
(* (Disconnect is never called), request-time, request-status and          *)
(* request-peers are each emitted infinitely often.                        *)
(***************************************************************************)
NeverCloses == [](discCalls = 0)

C6_TicklesPeriodic ==
    NeverCloses =>
        /\ []<>(lastEmit = "request-time")
        /\ []<>(lastEmit = "request-status")
        /\ []<>(lastEmit = "request-peers")

(***************************************************************************)
(* C7.  Outbound emits reset their tickle: when the handler has emitted    *)
(* request-time or response-time, timeTickle is armed with the full        *)
(* DefaultTimeTickle, and when it has emitted request-status or            *)
(* response-status, statusTickle is armed with the full                    *)
(* DefaultStatusTickle.                                                    *)
(***************************************************************************)
Rearmed(x) == timers[x].active /\ timers[x].rem = Duration(x)

C7_EmitsResetTickle ==
    /\ lastEmit \in {"request-time", "response-time"} => Rearmed("timeTickle")
    /\ lastEmit \in {"request-status", "response-status"} => Rearmed("statusTickle")

(***************************************************************************)
(* C8.  Reset semantics of timeTickle: a tick is in timeTickle's channel   *)
(* only when DefaultTimeTickle seconds have passed since the timer was     *)
(* last armed, so that after a reset (the one that follows the emit of     *)
(* request-time, or one made over a tick that was still undrained) the     *)
(* next firing is a full period away and no stale tick is left behind.     *)
(***************************************************************************)
C8_NoStaleTimeTick ==
    /\ timers["timeTickle"].c = 1 => sinceTimeArm >= DefaultTimeTickle
    /\ lastEmit = "request-time" => timers["timeTickle"].c = 0

\* timeTickle has just been reset while its tick was still in the channel.
C8_ResetOverUndrainedTick ==
    /\ staleTick
    /\ Rearmed("timeTickle")
    /\ timers["timeTickle"].c = 0

(***************************************************************************)
(* C9.  Disconnect stops all three tickles: once a call of Disconnect has  *)
(* returned, none of timeTickle, statusTickle and peersTickle is armed,    *)
(* and the handler emits no request-time, request-status or request-peers. *)
(***************************************************************************)
Tickles == {"timeTickle", "statusTickle", "peersTickle"}

C9_DisconnectStopsTickles ==
    discDone > 0 =>
        /\ \A x \in Tickles : ~timers[x].active
        /\ lastEmit \notin {"request-time", "request-status", "request-peers"}

(***************************************************************************)
(* C10.  A response-header whose payload is malformed (not a valid v1 or   *)
(* v2 header; the empty and the very short string included) is dropped:    *)
(* the handler does not panic, the watchdog is not reset, and neither the  *)
(* remote nor the local cache changes.                                     *)
(***************************************************************************)
AllIn(s, alphabet) == \A k \in 1..Len(s) : \E i \in 1..Len(alphabet) : alphabet[i] = s[k]

\* M0100:HHHHHHHH:HHHHHHHH:<66 hex>:<66 hex>:<66 hex>:<64 hex>:<64 hex>
WellFormedV1(s) ==
    LET d == SplitColon(s)
    IN  /\ Len(d) = 8
        /\ d[1] = StrM0100
        /\ \A k \in {2, 3} : Len(d[k]) = 8 /\ AllIn(d[k], HexUpper)
        /\ \A k \in {4, 5, 6} : Len(d[k]) = 66 /\ AllIn(d[k], HexLower)
        /\ \A k \in {7, 8} : Len(d[k]) = 64 /\ AllIn(d[k], HexLower)

\* 256 or 164 characters of base 64 that decode to bytes with the v2 magic.
WellFormedV2(s) ==
    /\ Len(s) \in {MessageHeaderLengthB64V2, ShortMessageHeaderLengthB64V2}
    /\ AllIn(s, B64Alphabet)
    /\ Take(B64DecodeString(s).bytes, 4) = MagicV2

Malformed == [i \in 1..Len(SampleWire) |->
                 ~WellFormedV1(SampleWire[i]) /\ ~WellFormedV2(SampleWire[i])]

C10_MalformedHeaderDropped ==
    [][\A i \in 1..Len(SampleWire) :
          lastRx' = Rx("response-header", i) /\ Malformed[i] =>
              /\ panicked' = NoPanic
              /\ timers'["watchdog"] = timers["watchdog"]
              /\ remoteCache' = remoteCache
              /\ localCache' = localCache]_vars

(***************************************************************************)
(* C11.  Codec bijection and sticky version: for every valid 338-character *)
(* v1 ASCII header s and every valid 256-character v2 base-64 header s,    *)
(* Deserialize(s) succeeds and Serialize of the result equals s character  *)
(* for character, in the version it was parsed as; and                     *)
(* Deserialize(Serialize(h)) equals h field for field.                     *)
(* The v1 format of eight fields (M0100, two of 8 hex digits, three of 66, *)
(* two of 64, seven colons) is 354 characters long, not 338:               *)
(* C11_CodecBijection states the claim for 354, C11_CodecBijection338 for  *)
(* the strings of 338 characters that have the eight fields.               *)
(***************************************************************************)
\* Eight colon-separated fields: M0100, time and expire in uppercase hex, the
\* others in lowercase hex, n characters in all.
V1Fields(s, n) ==
    LET d == SplitColon(s)
    IN  /\ Len(s) = n
        /\ Len(d) = 8
        /\ d[1] = StrM0100
        /\ \A k \in {2, 3} : Len(d[k]) = 8 /\ AllIn(d[k], HexUpper)
        /\ \A k \in 4..8 : Len(d[k]) % 2 = 0 /\ AllIn(d[k], HexLower)

ValidLongV2(s) ==
    /\ Len(s) = MessageHeaderLengthB64V2
    /\ AllIn(s, B64Alphabet)
    /\ Take(B64DecodeString(s).bytes, 4) = MagicV2

\* A header with the fields of the data model.
ConformantHeader(h) ==
    /\ h.version \in {Str0100, Str0200}
    /\ Len(h.I) = 33 /\ Len(h.J) = 33 /\ Len(h.K) = 33
    /\ Len(h.r) = 32 /\ Len(h.s) = 32
    /\ Take(h.nonce, 3) = Rep(0, 3)
    /\ h.version = Str0100 =>
           h.blocklen = U32Zero /\ h.reserved = Rep(0, 8) /\ h.nonce = Rep(0, 8)

\* The round trips of the codec's caller, for the strings that validV1 and
\* ValidLongV2 accept.
RoundTrips(validV1(_)) ==
    /\ given = "string" /\ (validV1(wire) \/ ValidLongV2(wire)) =>
           /\ panicked = NoPanic
           /\ codecPc \notin {"failed", "refused"}
           /\ codecPc # "start" =>
                  rmh.version = (IF validV1(wire) THEN Str0100 ELSE Str0200)
           /\ codecPc \in {"serialized", "reparsed"} => out = wire
    /\ ConformantHeader(rmh) /\ codecPc # "failed" =>
           /\ panicked = NoPanic
           /\ codecPc # "refused"
           /\ codecPc = "reparsed" => back = rmh

IsV1Header354(s) == V1Fields(s, MessageHeaderLengthV1) /\ WellFormedV1(s)

IsV1Header338(s) == V1Fields(s, 338)

C11_CodecBijection == RoundTrips(IsV1Header354)

C11_CodecBijection338 == RoundTrips(IsV1Header338)

\* A valid v1 string has made the whole round trip.
C11_V1RoundTripDone ==
    /\ given = "string"
    /\ IsV1Header354(wire)
    /\ codecPc = "reparsed"
    /\ out = wire
    /\ back = rmh

(***************************************************************************)
(* C12.  The round trip holds for the v2 short form: for every valid       *)
(* 164-character base-64 string s (123 bytes that start with the v2 magic  *)
(* and omit r, s and nonce), Deserialize(s) succeeds and Serialize of the  *)
(* resulting header returns a string equal to s.                           *)
(***************************************************************************)
ValidShortV2(s) ==
    /\ Len(s) = ShortMessageHeaderLengthB64V2
    /\ AllIn(s, B64Alphabet)
    /\ Len(B64DecodeString(s).bytes) = ShortMessageHeaderLengthV2
    /\ Take(B64DecodeString(s).bytes, 4) = MagicV2

C12_ShortFormRoundTrip ==
    given = "string" /\ ValidShortV2(wire) =>
        /\ panicked = NoPanic
        /\ codecPc # "failed"
        /\ codecPc \in {"serialized", "reparsed", "refused"} => out = wire

(***************************************************************************)
(* C13.  Deserialize fails with an error, neither panicking nor accepting, *)
(* for every input whose length is wrong (a v1 string that is not exactly  *)
(* the eight colon-separated fields of the format; a v2 string that is not *)
(* 256 or 164 characters long), whose magic is wrong, or that has a        *)
(* character outside the hex alphabet in a v1 field (time and expire       *)
(* included) or outside the base-64 alphabet in a v2 string.  The widths   *)
(* of the v1 fields are those of the format (354 characters in all).       *)
(***************************************************************************)
V1Widths == <<5, 8, 8, 66, 66, 66, 64, 64>>

MalformedV1(s) ==
    LET d == SplitColon(s)
    IN  \/ Len(d) # 8
        \/ \E k \in 1..8 : Len(d[k]) # V1Widths[k]
        \/ d[1] # StrM0100
        \/ \E k \in 2..8 : ~AllIn(d[k], HexLower \o HexUpper)

MalformedV2(s) ==
    \/ Len(s) \notin {MessageHeaderLengthB64V2, ShortMessageHeaderLengthB64V2}
    \/ ~AllIn(s, B64Alphabet)
    \/ Take(B64DecodeString(s).bytes, 4) # MagicV2

MalformedInput(s) ==
    IF Len(s) >= 3 /\ Take(s, 3) = StrM01 THEN MalformedV1(s) ELSE MalformedV2(s)

C13_MalformedRejected ==
    given = "string" /\ MalformedInput(wire) /\ codecPc # "start" =>
        panicked = NoPanic /\ codecPc = "failed"

(***************************************************************************)
(* C14.  Order totality: Less on a header slice orders by ascending time   *)
(* and breaks ties by byte-lexicographic comparison of the 33-byte I; it   *)
(* is irreflexive, antisymmetric and transitive, and for two headers with  *)
(* different (time, I) exactly one of Less(i,j) and Less(j,i) holds.       *)
(***************************************************************************)
\* The headers of the slice whose I has 33 bytes.
FullI == {i \in 1..Len(slice) : Len(slice[i].I) = 33}

IsLess(i, j) == Less(slice, i, j).v

\* The sort key: time, then I.
TimeThenI(i) == slice[i].time \o slice[i].I

C14_LessIsStrictTotalOrder ==
    /\ \A i, j \in FullI :
           /\ Less(slice, i, j).panic = NoPanic
           /\ IsLess(i, j) <=> BytesLess(TimeThenI(i), TimeThenI(j))
           /\ ~IsLess(i, i)
           /\ IsLess(i, j) => ~IsLess(j, i)
           /\ TimeThenI(i) # TimeThenI(j) => (IsLess(i, j) \/ IsLess(j, i))
    /\ \A i, j, k \in FullI : IsLess(i, j) /\ IsLess(j, k) => IsLess(i, k)
    /\ lessRet # NoLess /\ {lessRet.i, lessRet.j} \subseteq FullI =>
           lessRet.less = BytesLess(TimeThenI(lessRet.i), TimeThenI(lessRet.j))

\* Less has returned true for two headers of the same time.
C14_TieBrokenByI ==
    /\ lessRet # NoLess
    /\ {lessRet.i, lessRet.j} \subseteq FullI
    /\ slice[lessRet.i].time = slice[lessRet.j].time
    /\ slice[lessRet.i].I # slice[lessRet.j].I
    /\ lessRet.less

(***************************************************************************)
(* C15.  The four database key families are disjoint, ordered subspaces:   *)
(* the date key (D0, time, I), the arrival key (C0, servertime, I), the    *)
(* expiry key (E0, expire, I) and the presence key that dbKeys returns     *)
(* each carry their own prefix byte, so no key of one family is equal to,  *)
(* or falls inside the prefix range scanned for, a key of another family,  *)
(* whatever the bytes of I are.                                            *)
(***************************************************************************)
\* The prefix bytes D0, C0 and E0.
PrefixD0 == 208

PrefixC0 == 192

PrefixE0 == 224

\* Key k lies in the range of the keys that begin with byte p.
InPrefixRange(k, p) == Len(k) > 0 /\ k[1] = p

C15_KeyFamiliesDisjoint ==
    dbk # NoKeys =>
        /\ InPrefixRange(dbk.date, PrefixD0)
        /\ InPrefixRange(dbk.servertime, PrefixC0)
        /\ InPrefixRange(dbk.expire, PrefixE0)
        /\ \A p \in {PrefixD0, PrefixC0, PrefixE0} : ~InPrefixRange(dbk.I, p)
        /\ Cardinality({dbk.date, dbk.servertime, dbk.expire, dbk.I}) = 4

(***************************************************************************)
(* C16.  Expiry completeness: after successful Inserts, a complete expiry  *)
(* sweep at a time now leaves none of the four index entries of a stored   *)
(* header whose expire is below now, FindByI returns nil for it, and Count *)
(* is 0 when every stored header's expire is below now; a header whose     *)
(* expire is greater than now keeps its entries.                           *)
(***************************************************************************)
\* What the store holds: the headers with their arrival times.
Stored(store) == {store[k] : k \in DOMAIN store}

EntriesOf(v) ==
    LET keys == dbKeys(v.h, v.servertime)
    IN  {keys.date, keys.servertime, keys.expire, keys.I}

SweepComplete == ret.op = "sweep" /\ ret.complete

C16_ExpiryComplete ==
    (SweepComplete /\ interrupts = 0) =>
        /\ \A v \in Stored(ret.before) :
              /\ BytesLess(v.h.expire, BE32(ret.at)) =>
                    /\ EntriesOf(v) \cap DOMAIN kv = {}
                    /\ FindByI(kv, v.h.I) = Nil
              /\ BytesLess(BE32(ret.at), v.h.expire) =>
                    /\ EntriesOf(v) \subseteq DOMAIN kv
                    /\ FindByI(kv, v.h.I) = v.h
        /\ (\A v \in Stored(ret.before) : BytesLess(v.h.expire, BE32(ret.at)))
              => Count = 0

(***************************************************************************)
(* C17.  The expiry sweep is idempotent under interruption: when a sweep   *)
(* has stopped after deleting some of an expired header's four entries in  *)
(* the order date, expiry, arrival, presence, a later complete sweep       *)
(* leaves no entry of an expired header, and Count equals the number of    *)
(* headers still present.                                                  *)
(***************************************************************************)
\* The headers present: those whose presence entry is in the store.
Present(store) == {k \in DOMAIN store : store[k].h.I = k}

C17_SweepIdempotent ==
    (SweepComplete /\ interrupts > 0) =>
        /\ \A v \in Stored(kv) : ~BytesLess(v.h.expire, BE32(ret.at))
        /\ Count = Cardinality(Present(kv))

(***************************************************************************)
(* C18.  Cache insert idempotence: Insert of a header h with expire > now  *)
(* that is not yet in the cache returns (true, nil) and Count grows by 1;  *)
(* the Insert(h) that follows it returns (false, nil) and leaves Count, so *)
(* that Count has grown by exactly 1 in total; Insert of a header with     *)
(* expire <= now that is not in the cache returns (false, HeaderExpired)   *)
(* and changes neither Count nor any index entry.  The claim as written    *)
(* says this of every header with expire <= now, in the cache or not.      *)
(***************************************************************************)
InCache(h) == dbKeys(h, BE32(now)).I \in DOMAIN kv

FirstInsert(h) ==
    (~InCache(h) /\ BytesLess(BE32(now), h.expire)) =>
        /\ ret'.inserted /\ ret'.err = "nil"
        /\ Count' = Count + 1

SecondInsert(h) ==
    (ret.op = "Insert" /\ ret.h = h /\ ret.inserted) =>
        /\ ~ret'.inserted /\ ret'.err = "nil"
        /\ Count' = Count /\ kv' = kv

Refused(h) ==
    /\ ~ret'.inserted /\ ret'.err = "HeaderExpired"
    /\ Count' = Count /\ kv' = kv

ArrivalOrder(store, a, b) ==
    \/ BytesLess(store[a.I].servertime, store[b.I].servertime)
    \/ /\ store[a.I].servertime = store[b.I].servertime
       /\ BytesLess(a.I, b.I)

C19_FindSinceExact ==
    (ret.op = "FindSince" /\ interrupts = 0) =>
        LET res == ret.headers
            want == {kv[k].h : k \in {p \in Present(kv) :
                                        U32Leq(ret.since, kv[p].servertime)}}
        IN  /\ {res[i] : i \in 1..Len(res)} = want
            /\ \A i, j \in 1..Len(res) : i < j => res[i] # res[j]
            /\ \A i, j \in 1..Len(res) : i < j => ArrivalOrder(kv, res[i], res[j])

(***************************************************************************)
(* C20.  Sector admission: a header whose identifier has the 10-bit prefix *)
(* p is admitted iff p is one of the 2^Ring bins counted from Start with   *)
(* wrap-around past 0x3FF, and is rejected with OutOfSector otherwise,     *)
(* leaving the cache as it was; under {Start=0x200, Ring=1} exactly the    *)
(* prefixes 0x200 and 0x201 are admitted, under {Start=0x3FF, Ring=1}      *)
(* exactly 0x3FF and 0x000; SetTarget puts its argument in force.          *)
(***************************************************************************)
\* The bins of a sector, counted upwards from Start.
Bins(sec) == {(sec.Start + d) % 1024 : d \in 0..(Pow2(sec.Ring) - 1)}

Rejected == ret'.err = "OutOfSector"

StatusReceived == lastRx'.ev = "response-status" /\ JsonOk(lastRx'.arg)

\* The step ends the handler of a response-header that parses.
HeaderReceived ==
    /\ lastRx'.ev = "response-header"
    /\ ~Parsed[lastRx'.arg].panic /\ ~Parsed[lastRx'.arg].err

C21_Adoption ==
    [][/\ StatusReceived => Status' = lastRx'.arg
       /\ ~StatusReceived => Status' = Status
       /\ (remoteSet /\ StatusReceived) => remoteStatus' = lastRx'.arg
       /\ (remoteSet /\ lastRx'.ev = "response-time") =>
             remoteServerTime' = lastRx'.arg
       /\ (remoteSet /\ HeaderReceived
             /\ BytesLess(BE32(now), Parsed[lastRx'.arg].z.expire)) =>
             Parsed[lastRx'.arg].z.I \in remoteCache']_vars

(***************************************************************************)
(* C22.  Refresh loop ordering: the refresh task alternates its two        *)
(* phases, Sync first and then DiscoverPeers; each phase starts only after *)
(* a sleep of half the interval (30 s) that follows the return of the      *)
(* phase before it, and no two Syncs start without a DiscoverPeers between *)
(* them.                                                                   *)
(***************************************************************************)
PhaseStarts(phase) == refresh.pc # phase /\ refresh'.pc = phase

C22_RefreshAlternates ==
    [][/\ PhaseStarts("Sync") =>
             /\ refresh.pc = "sleepSync" /\ refresh.slept = 30
             /\ refresh.last \in {"none", "DiscoverPeers"}
       /\ PhaseStarts("DiscoverPeers") =>
             /\ refresh.pc = "sleepDiscover" /\ refresh.slept = 30
             /\ refresh.last = "Sync"]_vars

C22_SecondSyncStarted == refresh.pc = "Sync" /\ refresh.last = "Sync" /\ now = NowCap

(***************************************************************************)
(* C23.  A timer reset never blocks: a goroutine that is in resetWatchdog, *)
(* resetTimeTickle or resetStatusTickle, called from an inbound-event      *)
(* handler or from RequestStatus, and has come to wait in <-t.C, goes on:  *)
(* the reset completes, in every interleaving with the event loop.         *)
(***************************************************************************)
InReset(T) == pc[T] = "wait" /\ ~StopOnly(cur[T])

C23_ResetCompletes == \A T \in {"rx", "app"} : InReset(T) ~> ~InReset(T)

(***************************************************************************)
(* C24.  A Disconnect started by the transport's close callback or by the  *)
(* event loop while NewWSProtocolHandler has not yet returned finds the    *)
(* handler in the list: it never reaches the panic "trying to remove       *)
(* element not in list".                                                   *)
(***************************************************************************)
C24_RegisteredBeforeCallbacks == ctor # "done" => panicked # NotInList

(***************************************************************************)
(* C25.  Registry invariant: after any interleaving of constructions and   *)
(* completed Disconnects the handler list holds every constructed, not yet *)
(* disconnected handler exactly once, no disconnected handler and no nil   *)
(* entry; the removal of one handler removes no other handler.             *)
(***************************************************************************)
Places(h) == {k \in 1..Len(wsHandlerList) : wsHandlerList[k] = h}

RegistryExact ==
    /\ \A h \in Handlers :
          Cardinality(Places(h)) = IF stage[h] = "listed" THEN 1 ELSE 0
    /\ \A k \in 1..Len(wsHandlerList) : wsHandlerList[k] \in Handlers

RemovesOnlyItself ==
    \A h \in Handlers :
        (RegistryDisconnect(h) /\ panicked' = NoPanic) =>
            Range(wsHandlerList') = Range(wsHandlerList) \ {h}

C25_RegistryInvariant == []RegistryExact /\ [][RemovesOnlyItself]_vars

C25_LastTookItsPlace ==
    /\ stage[1] = "closed"
    /\ wsHandlerList = <<3, 2>>

(***************************************************************************)
(* C26.  Only the peer can keep the session alive: local outbound activity *)
(* (the tickle emits of the event loop, RequestStatus, TxHeader) never     *)
(* postpones the watchdog deadline: such a step leaves the watchdog timer  *)
(* as it was.                                                              *)
(***************************************************************************)
LocalOutbound ==
    \/ LoopTimeEmit
    \/ LoopStatusEmit
    \/ LoopPeersEmit
    \/ RequestStatus
    \/ TxHeader

C26_OutboundLeavesWatchdog ==
    [][LocalOutbound => timers'["watchdog"] = timers["watchdog"]]_vars

(***************************************************************************)
(* C27.  The timers are independent: when the event loop handles the       *)
(* firing of a tickle it re-arms that tickle with its period and leaves    *)
(* the three other timers as they were; in particular the firing of        *)
(* peersTickle leaves statusTickle, timeTickle and the watchdog unchanged. *)
(***************************************************************************)
RearmsOnly(x) ==
    /\ timers'[x] = TimerReset(timers[x], Duration(x))
    /\ \A y \in TimerNames \ {x} : timers'[y] = timers[y]

C27_TimersIndependent ==
    [][/\ LoopTimeEmit => RearmsOnly("timeTickle")
       /\ LoopStatusEmit => RearmsOnly("statusTickle")
       /\ LoopPeersEmit => RearmsOnly("peersTickle")]_vars

(***************************************************************************)
(* C28.  Deserialize is a function of its input alone: the header that a   *)
(* successful Deserialize(s) leaves is the same whatever the receiver held *)
(* before, so that Swap, which parses the string of each element onto the  *)
(* other, leaves in each place what a fresh header would have parsed, and  *)
(* exchanges the two elements completely.                                  *)
(***************************************************************************)
\* What a fresh header is after it has parsed the string of h.
ParsedAfresh(h) == Deserialize(ZeroHeader, Serialize(h).v).z

C28_DeserializeForgetsReceiver ==
    [][(CallSwap /\ panicked' = NoPanic) =>
          /\ slice'[lessRet.j] = ParsedAfresh(slice[lessRet.i])
          /\ slice'[lessRet.i] = ParsedAfresh(slice[lessRet.j])
          /\ slice'[lessRet.j] = slice[lessRet.i]
          /\ slice'[lessRet.i] = slice[lessRet.j]]_vars

(***************************************************************************)
(* C29.  The message body size JSON() reports is (blocklen + 1) x 256      *)
(* bytes for every 32-bit blocklen, 0xFFFFFFFF included: Size is that      *)
(* product computed without wrap-around, in 64 bits.                       *)
(***************************************************************************)
\* (blocklen + 1) x 256, the sum taken in 64 bits.
BodySize(blocklen) == MulCarry(AddOne(Uint64(blocklen)), MessageHeaderLengthB64V2, 0)

C29_SizeWithoutWrap ==
    ret.op = "JSON" => ret.json.Size = BodySize(ret.h.blocklen)

(***************************************************************************)
(* C30.  A rejected upload leaves the store unchanged: when InsertFile     *)
(* fails on the uploaded file, the blob that was stored under its I, if    *)
(* any, is still there with its content, and no blob remains under that I  *)
(* for a header that is not in the local cache.                            *)
(***************************************************************************)
RejectedLeavesStore(h) ==
    IF h.I \in DOMAIN blobs
    THEN h.I \in DOMAIN blobs' /\ blobs'[h.I] = blobs[h.I]
    ELSE h.I \in DOMAIN blobs' => dbKeys(h, BE32(now)).I \in DOMAIN kv'

C30_RejectedUploadLeavesStore ==
    [][\A h \in UploadHeaders, body \in Bodies :
          (CallUpload(h, body) /\ ret'.err # "nil") => RejectedLeavesStore(h)]_vars

====
